---- MODULE Spec2Model ----
(***************************************************************************)
(* Model of the NVIDIA infiniband health-check component                   *)
(* (components/accelerator/nvidia/infiniband/component.go): the periodic   *)
(* loop of Start, one Check cycle step by step, the event bucket it        *)
(* records to, and the LastHealthStates reader.                            *)
(***************************************************************************)
EXTENDS Integers, Sequences, FiniteSets, TLC

\* ------------------------------------------------------------------ bounds
\* the number of Check invocations of one behaviour of the loop
MaxLoopChecks == 2
\* the minutes the wall clock runs, from StartTime, in a behaviour of the loop
MaxLoopTicks == 2
\* the number of events earlier cycles left in the event store
MaxHistory == 2

\* --------------------------------------------------------- program constants
\* since := cr.ts.Add(-10 * time.Minute)
LookbackMinutes == 10
\* elapsed < 4*time.Minute in evaluateIbPortDrop
DropMinutes == 4
\* elapsed > 4*time.Minute in evaluateIbPortFlap
FlapMinutes == 4
\* transitions[len(transitions)-4:]
FlapKeep == 4
\* the clock value at construction (so that a lookback never goes negative)
StartTime == LookbackMinutes

\* --------------------------------------------------------------- data types
Devices == <<"mlx5_0", "mlx5_1">>

\* infiniband.IBPort as one data source reports it
PortKinds ==
  { [State |-> "Active", PhysicalState |-> "LinkUp", Rate |-> 400],
    [State |-> "Active", PhysicalState |-> "LinkUp", Rate |-> 100],
    [State |-> "Down", PhysicalState |-> "Disabled", Rate |-> 0] }

MkPort(dev, k) ==
  [Device |-> dev, State |-> k.State, PhysicalState |-> k.PhysicalState, Rate |-> k.Rate]

\* the port lists a data source can report: the first n devices, each in any kind
PortLists ==
  UNION { { [i \in 1..n |-> MkPort(Devices[i], f[i])] : f \in [1..n -> PortKinds] }
          : n \in 0..Len(Devices) }

\* *infiniband.IbstatOutput / *infiniband.IbstatusOutput: a nil pointer or parsed cards
NilOutput == [isNil |-> TRUE, Parsed |-> <<>>]
MkOutput(ports) == [isNil |-> FALSE, Parsed |-> ports]
Outputs == {NilOutput} \cup { MkOutput(p) : p \in PortLists }

\* Parsed.IBPorts(): one IBPort per parsed card
IBPorts(out) == out.Parsed

\* error values; "" is the nil error
NoError == ""
ErrNoIbstatCommand == "ibstat not found. cannot check ib state"
ErrIbstatExec == "ibstat exited 255"
ErrIbstatus == "ibstatus failed"
ErrStoreFind == "event store find failed"
ErrStoreInsert == "event store insert failed"
ErrStoreGet == "event store get failed"

\* what getIbstatOutputFunc / getIbstatusOutputFunc can return: (output, error)
IbstatResults == { [out |-> o, err |-> e] : o \in Outputs,
                                            e \in {NoError, ErrNoIbstatCommand, ErrIbstatExec} }
IbstatusResults == { [out |-> o, err |-> e] : o \in Outputs, e \in {NoError, ErrIbstatus} }

\* infiniband.ExpectedPortStates as getThresholdsFunc can return it
ZeroThresholds == [AtLeastPorts |-> 0, AtLeastRate |-> 0]
ThresholdChoices == { ZeroThresholds, [AtLeastPorts |-> 2, AtLeastRate |-> 200] }

\* ExpectedPortStates.IsZero
IsZero(th) == th.AtLeastPorts = 0 /\ th.AtLeastRate = 0

Healthy == "Healthy"
Unhealthy == "Unhealthy"

reasonThresholdNotSetSkipped == "ports or rate threshold not set, skipping"
reasonMissingIbstatIbstatusOutput == "missing ibstat/ibstatus output (skipped evaluation)"
reasonMissingEventBucket == "missing event storage (skipped evaluation)"
reasonNoIbIssueFoundFromIbstat == "no infiniband issue found (in ibstat/ibstatus)"

HardwareInspection == <<"HARDWARE_INSPECTION">>

\* &checkResult{ts: time.Now().UTC()}
NewCheckResult(ts) ==
  [ IbstatOutput |-> NilOutput, IbstatusOutput |-> NilOutput,
    allIBPorts |-> <<>>, unhealthyIBPorts |-> <<>>,
    ts |-> ts, err |-> NoError, errIbstatus |-> NoError,
    health |-> "", suggestedActions |-> <<>>, reason |-> "",
    reasonIbSwitchFault |-> "", reasonIbPortDrop |-> "", reasonIbPortFlap |-> "" ]

\* ------------------------------------------------------ threshold evaluation
IsHealthyPort(p, atLeastRate) == p.State = "Active" /\ p.Rate >= atLeastRate

\* infiniband.EvaluatePortsAndRate: (unhealthy ports, error)
EvaluatePortsAndRate(ports, atLeastPorts, atLeastRate) ==
  LET ok == SelectSeq(ports, LAMBDA p : IsHealthyPort(p, atLeastRate))
      bad == SelectSeq(ports, LAMBDA p : ~IsHealthyPort(p, atLeastRate))
  IN IF Len(ok) < atLeastPorts
       THEN [unhealthy |-> bad,
             err |-> "only " \o ToString(Len(ok)) \o " port(s) are active and >="
                     \o ToString(atLeastRate) \o " Gb/s, expect >="
                     \o ToString(atLeastPorts) \o " port(s)"]
       ELSE [unhealthy |-> <<>>, err |-> NoError]

\* evaluateThresholds that keeps a failed ibstat unhealthy whatever its partial output
evaluateThresholdsNoOverride(cr, th) ==
  IF IsZero(th)
    THEN [cr EXCEPT !.health = Healthy, !.suggestedActions = <<>>,
                    !.unhealthyIBPorts = <<>>, !.reason = reasonThresholdNotSetSkipped,
                    !.err = NoError, !.errIbstatus = NoError]
  ELSE IF Len(cr.allIBPorts) = 0
    THEN [cr EXCEPT !.reason = reasonMissingIbstatIbstatusOutput, !.health = Healthy]
  ELSE LET r == EvaluatePortsAndRate(cr.allIBPorts, th.AtLeastPorts, th.AtLeastRate)
       IN IF r.err # NoError
            THEN [cr EXCEPT !.health = Unhealthy, !.suggestedActions = HardwareInspection,
                            !.unhealthyIBPorts = r.unhealthy, !.reason = r.err]
          ELSE IF cr.err # NoError THEN cr
          ELSE [cr EXCEPT !.health = Healthy, !.suggestedActions = <<>>,
                          !.unhealthyIBPorts = <<>>, !.reason = reasonNoIbIssueFoundFromIbstat]

\* evaluateThresholds without the check for an empty port list
evaluateThresholdsNoEmptyCheck(cr, th) ==
  IF IsZero(th)
    THEN [cr EXCEPT !.health = Healthy, !.suggestedActions = <<>>,
                    !.unhealthyIBPorts = <<>>, !.reason = reasonThresholdNotSetSkipped,
                    !.err = NoError, !.errIbstatus = NoError]
  ELSE LET r == EvaluatePortsAndRate(cr.allIBPorts, th.AtLeastPorts, th.AtLeastRate)
       IN IF r.err # NoError
            THEN [cr EXCEPT !.health = Unhealthy, !.suggestedActions = HardwareInspection,
                            !.unhealthyIBPorts = r.unhealthy, !.reason = r.err]
            ELSE [cr EXCEPT !.health = Healthy, !.suggestedActions = <<>>,
                            !.unhealthyIBPorts = <<>>, !.reason = reasonNoIbIssueFoundFromIbstat,
                            !.err = NoError,
                            !.errIbstatus = IF cr.err # NoError THEN NoError ELSE cr.errIbstatus]

\* evaluateThresholds that drops the unhealthy ports EvaluatePortsAndRate returns
evaluateThresholdsNoPorts(cr, th) ==
  IF IsZero(th)
    THEN [cr EXCEPT !.health = Healthy, !.suggestedActions = <<>>,
                    !.unhealthyIBPorts = <<>>, !.reason = reasonThresholdNotSetSkipped,
                    !.err = NoError, !.errIbstatus = NoError]
  ELSE IF Len(cr.allIBPorts) = 0
    THEN [cr EXCEPT !.reason = reasonMissingIbstatIbstatusOutput, !.health = Healthy]
  ELSE LET r == EvaluatePortsAndRate(cr.allIBPorts, th.AtLeastPorts, th.AtLeastRate)
       IN IF r.err # NoError
            THEN [cr EXCEPT !.health = Unhealthy, !.suggestedActions = HardwareInspection,
                            !.reason = r.err]
            ELSE [cr EXCEPT !.health = Healthy, !.suggestedActions = <<>>,
                            !.unhealthyIBPorts = <<>>, !.reason = reasonNoIbIssueFoundFromIbstat,
                            !.err = NoError,
                            !.errIbstatus = IF cr.err # NoError THEN NoError ELSE cr.errIbstatus]

\* evaluateThresholds(cr, thresholds)
evaluateThresholds(cr, th) ==
  IF IsZero(th)
    THEN [cr EXCEPT !.health = Healthy, !.suggestedActions = <<>>,
                    !.unhealthyIBPorts = <<>>, !.reason = reasonThresholdNotSetSkipped,
                    !.err = NoError, !.errIbstatus = NoError]
  ELSE IF Len(cr.allIBPorts) = 0
    THEN [cr EXCEPT !.reason = reasonMissingIbstatIbstatusOutput, !.health = Healthy]
  ELSE LET r == EvaluatePortsAndRate(cr.allIBPorts, th.AtLeastPorts, th.AtLeastRate)
       IN IF r.err # NoError
            THEN [cr EXCEPT !.health = Unhealthy, !.suggestedActions = HardwareInspection,
                            !.unhealthyIBPorts = r.unhealthy, !.reason = r.err]
            ELSE \* healthy: a partial output that meets the thresholds discards the error
                 [cr EXCEPT !.health = Healthy, !.suggestedActions = <<>>,
                            !.unhealthyIBPorts = <<>>, !.reason = reasonNoIbIssueFoundFromIbstat,
                            !.err = NoError,
                            !.errIbstatus = IF cr.err # NoError THEN NoError ELSE cr.errIbstatus]

\* ------------------------------------------------------------------- events
\* json.Marshal of the compact port list (device and state only); "[]" when empty
CompactPort(p) == [Device |-> p.Device, State |-> p.State, PhysicalState |-> "", Rate |-> 0]
MarshalPorts(ports) == [valid |-> TRUE, ports |-> [i \in 1..Len(ports) |-> CompactPort(ports[i])]]
\* a payload json.Unmarshal rejects
InvalidPayload == [valid |-> FALSE, ports |-> <<>>]

\* convertToIbstatEvent that takes the event type from the classification
convertToIbstatEventByHealth(cr) ==
  [ Time |-> cr.ts, Name |-> "ibstat",
    Type |-> IF cr.health = Unhealthy THEN "Warning" ELSE "Info",
    Message |-> cr.reason,
    ExtraInfo |-> MarshalPorts(cr.allIBPorts) ]

\* checkResult.convertToIbstatEvent
convertToIbstatEvent(cr) ==
  [ Time |-> cr.ts, Name |-> "ibstat",
    Type |-> IF Len(cr.unhealthyIBPorts) > 0 THEN "Warning" ELSE "Info",
    Message |-> cr.reason,
    ExtraInfo |-> MarshalPorts(cr.allIBPorts) ]

\* parseIBPortsFromEvent: nil for another event name or an undecodable payload
parseIBPortsFromEvent(ev) ==
  IF ev.Name # "ibstat" THEN <<>>
  ELSE IF ~ev.ExtraInfo.valid THEN <<>>
  ELSE ev.ExtraInfo.ports

\* ------------------------------------------------------- temporal analyzers
\* evaluateIbSwitchFault without the comparison against the total port count
evaluateIbSwitchFaultAnyPort(cr) ==
  IF cr.health = Healthy THEN cr
  ELSE IF Len(cr.unhealthyIBPorts) = 0 THEN cr
  ELSE [cr EXCEPT !.reasonIbSwitchFault = "ib switch fault, all ports down"]

\* evaluateIbSwitchFault(cr)
evaluateIbSwitchFault(cr) ==
  IF cr.health = Healthy THEN cr
  ELSE IF Len(cr.unhealthyIBPorts) = 0 THEN cr
  ELSE LET totalPorts == IF ~cr.IbstatOutput.isNil THEN Len(cr.IbstatOutput.Parsed)
                         ELSE IF ~cr.IbstatusOutput.isNil THEN Len(cr.IbstatusOutput.Parsed)
                         ELSE 0
       IN IF totalPorts = 0 \/ Len(cr.unhealthyIBPorts) # totalPorts THEN cr
          ELSE [cr EXCEPT !.reasonIbSwitchFault = "ib switch fault, all ports down"]

\* a Go map as a function on its key set
MapDelete(m, k) == [x \in DOMAIN m \ {k} |-> m[x]]
MapPut(m, k, v) == [x \in DOMAIN m \cup {k} |-> IF x = k THEN v ELSE m[x]]
EmptyMap == [x \in {} |-> 0]

\* humanize.RelTime(ts, now, "ago", "from now") for a whole number of minutes
RelTime(ts, now) ==
  IF now - ts = 0 THEN "now"
  ELSE IF now - ts = 1 THEN "1 minute ago"
  ELSE ToString(now - ts) \o " minutes ago"

\* the orders in which a range over a Go map with key set keys can visit the keys
MapOrders(keys) ==
  { o \in [1..Cardinality(keys) -> keys] : \A i, j \in DOMAIN o : i # j => o[i] # o[j] }

\* the messages appended while the map is visited in the given order: the
\* visited keys that are in kept, each with its text
Messages(order, kept, text) ==
  LET F[i \in 0..Len(order)] ==
        IF i = 0 THEN <<>>
        ELSE IF order[i] \in kept
          THEN Append(F[i - 1], [dev |-> order[i], text |-> text[order[i]]])
          ELSE F[i - 1]
  IN F[Len(order)]

\* the place of a device name in the ascending order of the names
DeviceRank(d) == CHOOSE i \in 1..Len(Devices) : Devices[i] = d

\* the messages left in the order the map was visited
Unsorted(msgs) == msgs

\* sort.Strings(msgs): every message starts with its device name and the
\* names are distinct, so the messages end up in ascending order of the names
SortStrings(msgs) ==
  LET n == Len(msgs)
      f == CHOOSE g \in [1..n -> 1..n] :
             /\ \A i, j \in 1..n : i # j => g[i] # g[j]
             /\ \A i, j \in 1..n :
                  i < j => DeviceRank(msgs[g[i]].dev) < DeviceRank(msgs[g[j]].dev)
  IN [i \in 1..n |-> msgs[f[i]]]

\* strings.Join(msgs, ", ")
RECURSIVE JoinComma(_, _)
JoinComma(msgs, i) ==
  IF i > Len(msgs) THEN ""
  ELSE IF i = Len(msgs) THEN msgs[i].text
  ELSE msgs[i].text \o ", " \o JoinComma(msgs, i + 1)

\* DropScanPorts that keeps the entry of a device reported in another state
RECURSIVE DropScanPortsNoRecovery(_, _, _, _)
DropScanPortsNoRecovery(m, ports, i, t) ==
  IF i > Len(ports) THEN m
  ELSE LET port == ports[i]
       IN IF port.State # "Down"
            THEN DropScanPortsNoRecovery(m, ports, i + 1, t)
          ELSE IF port.Device \notin DOMAIN m
            THEN DropScanPortsNoRecovery(MapPut(m, port.Device, t), ports, i + 1, t)
          ELSE DropScanPortsNoRecovery(m, ports, i + 1, t)

\* the inner loop of evaluateIbPortDrop over one event's ports
RECURSIVE DropScanPorts(_, _, _, _)
DropScanPorts(m, ports, i, t) ==
  IF i > Len(ports) THEN m
  ELSE LET port == ports[i]
       IN IF port.State # "Down"
            THEN DropScanPorts(MapDelete(m, port.Device), ports, i + 1, t)
          ELSE IF port.Device \notin DOMAIN m
            THEN DropScanPorts(MapPut(m, port.Device, t), ports, i + 1, t)
          ELSE DropScanPorts(m, ports, i + 1, t)

\* DroppedSince that ends the scan at an event whose payload cannot be decoded
RECURSIVE DroppedSinceStopsAtError(_, _, _)
DroppedSinceStopsAtError(m, events, i) ==
  IF i > Len(events) THEN m
  ELSE IF ~events[i].ExtraInfo.valid THEN m
  ELSE DroppedSinceStopsAtError(
         DropScanPorts(m, parseIBPortsFromEvent(events[i]), 1, events[i].Time), events, i + 1)

\* droppedSince after the scan of events[i..]
RECURSIVE DroppedSince(_, _, _)
DroppedSince(m, events, i) ==
  IF i > Len(events) THEN m
  ELSE DroppedSince(DropScanPorts(m, parseIBPortsFromEvent(events[i]), 1, events[i].Time),
                    events, i + 1)

\* droppedSince as evaluateIbPortDrop builds it from the events it read
DroppedSinceOf(ibstatEvents) ==
  IF Len(ibstatEvents) = 0 THEN EmptyMap
  ELSE DroppedSince(EmptyMap, ibstatEvents, 1)

\* PortDropReason that also holds back a drop of exactly 4 minutes
PortDropReasonOverFour(cr, ibstatEvents, order) ==
  IF Len(ibstatEvents) = 0 THEN ""
  ELSE IF Len(ibstatEvents) = 1 /\ cr.ts = ibstatEvents[1].Time THEN ""
  ELSE LET droppedSince == DroppedSinceOf(ibstatEvents)
           reported == { d \in DOMAIN droppedSince :
                           /\ cr.ts - droppedSince[d] >= 0
                           /\ ~(cr.ts - droppedSince[d] <= DropMinutes) }
           text == [d \in reported |-> d \o " dropped " \o RelTime(droppedSince[d], cr.ts)]
           msgs == Messages(order, reported, text)
       IN IF Len(msgs) = 0 THEN ""
          ELSE "ib port drop -- " \o JoinComma(SortStrings(msgs), 1)

\* the part of evaluateIbPortDrop after the history read, the range over
\* droppedSince visiting the devices in the given order
PortDropReason(cr, ibstatEvents, order) ==
  IF Len(ibstatEvents) = 0 THEN ""
  ELSE IF Len(ibstatEvents) = 1 /\ cr.ts = ibstatEvents[1].Time THEN ""
  ELSE LET droppedSince == DroppedSinceOf(ibstatEvents)
           reported == { d \in DOMAIN droppedSince :
                           /\ cr.ts - droppedSince[d] >= 0
                           /\ ~(cr.ts - droppedSince[d] < DropMinutes) }
           text == [d \in reported |-> d \o " dropped " \o RelTime(droppedSince[d], cr.ts)]
           msgs == Messages(order, reported, text)
       IN IF Len(msgs) = 0 THEN ""
          ELSE "ib port drop -- " \o JoinComma(SortStrings(msgs), 1)

\* evaluateIbPortDrop(cr) on the ibstat events its history read returned
evaluateIbPortDrop(cr, ibstatEvents, order) ==
  IF cr.health = Healthy THEN cr
  ELSE [cr EXCEPT !.reasonIbPortDrop = PortDropReason(cr, ibstatEvents, order)]

\* strings.Join(transitions, " -> ")
RECURSIVE JoinArrow(_, _)
JoinArrow(tr, i) ==
  IF i > Len(tr) THEN ""
  ELSE IF i = Len(tr) THEN tr[i]
  ELSE tr[i] \o " -> " \o JoinArrow(tr, i + 1)

\* FlapScanPorts that appends every state, equal to the last entry or not
RECURSIVE FlapScanPortsNoCollapse(_, _, _)
FlapScanPortsNoCollapse(m, ports, i) ==
  IF i > Len(ports) THEN m
  ELSE LET port == ports[i]
       IN IF port.Device \notin DOMAIN m \/ Len(m[port.Device]) = 0
            THEN FlapScanPortsNoCollapse(MapPut(m, port.Device, <<port.State>>), ports, i + 1)
          ELSE FlapScanPortsNoCollapse(MapPut(m, port.Device, Append(m[port.Device], port.State)),
                                       ports, i + 1)

\* the inner loop of evaluateIbPortFlap over one event's ports
RECURSIVE FlapScanPorts(_, _, _)
FlapScanPorts(m, ports, i) ==
  IF i > Len(ports) THEN m
  ELSE LET port == ports[i]
       IN IF port.Device \notin DOMAIN m \/ Len(m[port.Device]) = 0
            THEN FlapScanPorts(MapPut(m, port.Device, <<port.State>>), ports, i + 1)
          ELSE IF m[port.Device][Len(m[port.Device])] # port.State
            THEN FlapScanPorts(MapPut(m, port.Device, Append(m[port.Device], port.State)),
                               ports, i + 1)
          ELSE FlapScanPorts(m, ports, i + 1)

\* StateTransitions that also skips the events exactly 4 minutes old
RECURSIVE StateTransitionsUnderFour(_, _, _, _)
StateTransitionsUnderFour(m, events, i, ts) ==
  IF i > Len(events) THEN m
  ELSE IF ts - events[i].Time >= FlapMinutes
    THEN StateTransitionsUnderFour(m, events, i + 1, ts)
  ELSE StateTransitionsUnderFour(FlapScanPorts(m, parseIBPortsFromEvent(events[i]), 1),
                                 events, i + 1, ts)

\* stateTransitions after the scan of events[i..]; events older than 4 minutes are skipped
RECURSIVE StateTransitions(_, _, _, _)
StateTransitions(m, events, i, ts) ==
  IF i > Len(events) THEN m
  ELSE IF ts - events[i].Time > FlapMinutes THEN StateTransitions(m, events, i + 1, ts)
  ELSE StateTransitions(FlapScanPorts(m, parseIBPortsFromEvent(events[i]), 1),
                        events, i + 1, ts)

\* LastEntries that keeps the first 4 entries
FirstEntries(tr) ==
  IF Len(tr) > FlapKeep THEN SubSeq(tr, 1, FlapKeep) ELSE tr

\* keep the last 4 entries
LastEntries(tr) ==
  IF Len(tr) > FlapKeep THEN SubSeq(tr, Len(tr) - FlapKeep + 1, Len(tr)) ELSE tr

\* stateTransitions as evaluateIbPortFlap builds it from the events it read
StateTransitionsOf(ibstatEvents, ts) ==
  IF Len(ibstatEvents) = 0 THEN EmptyMap
  ELSE StateTransitions(EmptyMap, ibstatEvents, 1, ts)

\* the part of evaluateIbPortFlap after the history read, the range over
\* stateTransitions visiting the devices in the given order
PortFlapReason(cr, ibstatEvents, order) ==
  IF Len(ibstatEvents) <= 1 THEN ""
  ELSE IF cr.ts - ibstatEvents[1].Time < 0 THEN ""
  ELSE LET stateTransitions == StateTransitionsOf(ibstatEvents, cr.ts)
           flapping == { d \in DOMAIN stateTransitions : ~(Len(stateTransitions[d]) < 2) }
           text == [d \in flapping |->
                      d \o " " \o JoinArrow(LastEntries(stateTransitions[d]), 1)]
           msgs == Messages(order, flapping, text)
       IN IF Len(msgs) = 0 THEN ""
          ELSE "ib port flap -- " \o JoinComma(SortStrings(msgs), 1)

\* evaluateIbPortFlap that leaves a cycle with a port-drop reason alone
evaluateIbPortFlapUnlessDrop(cr, ibstatEvents, order) ==
  IF cr.reasonIbPortDrop # "" THEN cr
  ELSE [cr EXCEPT !.reasonIbPortFlap = PortFlapReason(cr, ibstatEvents, order)]

\* evaluateIbPortFlap(cr) on the ibstat events its history read returned
evaluateIbPortFlap(cr, ibstatEvents, order) ==
  [cr EXCEPT !.reasonIbPortFlap = PortFlapReason(cr, ibstatEvents, order)]

\* ------------------------------------------------------------ health record
\* checkResult.Summary
Summary(cr) ==
  cr.reason
    \o (IF cr.reasonIbSwitchFault # "" THEN "; " \o cr.reasonIbSwitchFault ELSE "")
    \o (IF cr.reasonIbPortDrop # "" THEN "; " \o cr.reasonIbPortDrop ELSE "")
    \o (IF cr.reasonIbPortFlap # "" THEN "; " \o cr.reasonIbPortFlap ELSE "")

\* getError that falls back to the error of ibstatus
getErrorAny(cr) == IF cr.err # NoError THEN cr.err ELSE cr.errIbstatus

\* checkResult.getError: the fallback's error is never returned
getError(cr) == IF cr.err # NoError THEN cr.err ELSE ""

\* HealthStates that suggests the hardware inspection for every unhealthy verdict
HealthStatesActionIfUnhealthy(cr, isNil, clock) ==
  IF isNil
    THEN [Time |-> clock, Health |-> Healthy, Reason |-> "no data yet", Error |-> "",
          SuggestedActions |-> <<>>, ExtraInfo |-> NilOutput]
    ELSE [Time |-> cr.ts, Health |-> cr.health, Reason |-> Summary(cr),
          Error |-> getError(cr),
          SuggestedActions |-> IF cr.health = Unhealthy THEN HardwareInspection ELSE <<>>,
          ExtraInfo |-> cr.IbstatOutput]

\* HealthStates that stamps every record with the time of the query
HealthStatesStampedNow(cr, isNil, clock) ==
  IF isNil
    THEN [Time |-> clock, Health |-> Healthy, Reason |-> "no data yet", Error |-> "",
          SuggestedActions |-> <<>>, ExtraInfo |-> NilOutput]
    ELSE [Time |-> clock, Health |-> cr.health, Reason |-> Summary(cr),
          Error |-> getError(cr), SuggestedActions |-> cr.suggestedActions,
          ExtraInfo |-> cr.IbstatOutput]

\* checkResult.HealthStates; ptr = 0 is the nil *checkResult
HealthStates(cr, isNil, clock) ==
  IF isNil
    THEN [Time |-> clock, Health |-> Healthy, Reason |-> "no data yet", Error |-> "",
          SuggestedActions |-> <<>>, ExtraInfo |-> NilOutput]
    ELSE [Time |-> cr.ts, Health |-> cr.health, Reason |-> Summary(cr),
          Error |-> getError(cr), SuggestedActions |-> cr.suggestedActions,
          ExtraInfo |-> cr.IbstatOutput]

\* -------------------------------------------------------------- event store
\* eventstore.Bucket.Find compares the content of two events; whether the
\* timestamp takes part in the comparison is left to the store
SameContent(a, b) ==
  a.Name = b.Name /\ a.Type = b.Type /\ a.Message = b.Message /\ a.ExtraInfo = b.ExtraInfo

\* the outcomes of Find(ev) on a store that does not fail
FindOutcomes(events, ev) ==
  LET same == { i \in 1..Len(events) : SameContent(events[i], ev) }
      exact == { i \in same : events[i].Time = ev.Time }
  IN IF exact # {} THEN {"found"}
     ELSE IF same # {} THEN {"found", "none"}
     ELSE {"none"}

\* eventstore.Bucket.Insert: the bucket stays ordered by time
BucketInsert(events, ev) ==
  LET before == SelectSeq(events, LAMBDA e : e.Time <= ev.Time)
      after == SelectSeq(events, LAMBDA e : e.Time > ev.Time)
  IN before \o <<ev>> \o after

\* eventstore.Bucket.Get(since): ascending by time
BucketGet(events, since) == SelectSeq(events, LAMBDA e : e.Time >= since)

\* readAllIbstatEvents on a Get that succeeded
IbstatEventsOf(events) == SelectSeq(events, LAMBDA e : e.Name = "ibstat")

\* ------------------------------------------------------------------- state
VARIABLES
  now,              \* the wall clock, in minutes
  tickPending,      \* ticker.C holds a tick (a channel of capacity 1)
  cancelled,        \* c.ctx is done
  nvml,             \* c.nvmlInstance: "nil", "notloaded", "noproduct" or "ok"
  hasIbstatFunc,    \* c.getIbstatOutputFunc != nil
  hasIbstatusFunc,  \* c.getIbstatusOutputFunc != nil
  hasBucket,        \* c.eventBucket != nil
  store,            \* the events of c.eventBucket, ascending by time
  heap,             \* the checkResult objects allocated so far; a pointer is an index
  calls,            \* per checkResult, the external calls its Check has issued, in order
  lastCheckResult,  \* c.lastCheckResult: 0 (nil) or a pointer into heap
  installs,         \* per checkResult, how many times it was stored to c.lastCheckResult
  pc,               \* per process, where it stands
  cur,              \* per process, the cr pointer of its Check in progress
  thresholds,       \* per process, the thresholds local of its Check in progress
  rptr,             \* the reader's local lastCheckResult
  rseen,            \* what the reader's last LastHealthStates returned
  evs               \* what the last call of Events was given and returned

vars == <<now, tickPending, cancelled, nvml, hasIbstatFunc, hasIbstatusFunc, hasBucket,
          store, heap, calls, lastCheckResult, installs, pc, cur, thresholds, rptr, rseen,
          evs>>

config == <<nvml, hasIbstatFunc, hasIbstatusFunc, hasBucket>>
\* the locals and the results of the callers that only read
readerVars == <<rptr, rseen, evs>>

\* the goroutine of Start, an on-demand caller of Check, a caller of LastHealthStates
Procs == {"loop", "caller", "reader"}

NoneSeen == [Time |-> 0, Health |-> "", Reason |-> "", Error |-> "",
             SuggestedActions |-> <<>>, ExtraInfo |-> NilOutput]
\* Events has not been called
NoEventsCall == [called |-> FALSE, since |-> 0, isNil |-> TRUE, events |-> <<>>, err |-> NoError]

\* New(gpudInstance), then Start(), the event store holding one of stores
InitWith(stores) ==
  /\ now = StartTime
  /\ tickPending = FALSE
  /\ cancelled = FALSE
  /\ nvml \in {"nil", "notloaded", "noproduct", "ok"}
  /\ hasIbstatFunc \in BOOLEAN
  /\ hasIbstatusFunc \in BOOLEAN
  /\ hasBucket \in BOOLEAN
  /\ store \in stores
  /\ hasBucket \/ store = <<>>
  /\ heap = <<>>
  /\ calls = <<>>
  /\ installs = <<>>
  /\ lastCheckResult = 0
  /\ pc = [p \in Procs |-> IF p = "loop" THEN "check" ELSE "idle"]
  /\ cur = [p \in Procs |-> 0]
  /\ thresholds = [p \in Procs |-> ZeroThresholds]
  /\ rptr = 0
  /\ rseen = NoneSeen
  /\ evs = NoEventsCall

\* the component on a host whose event store is empty
Init == InitWith({<<>>})

\* a checkResult no pointer leads to any more: its memory is reclaimed
Freed == [NewCheckResult(0) EXCEPT !.reason = "(freed)"]

\* the heap, the call log and the install counts with only the objects in live kept
Collect(live) ==
  /\ heap' = [i \in DOMAIN heap |-> IF i \in live THEN heap[i] ELSE Freed]
  /\ calls' = [i \in DOMAIN calls |-> IF i \in live THEN calls[i] ELSE <<>>]

\* the checkResult objects a Check in progress other than p's points to
InProgress(p) == { cur[q] : q \in Procs \ {p} } \ {0}

CR(p) == heap[cur[p]]
SetCR(p, cr) == heap' = [heap EXCEPT ![cur[p]] = cr]
\* p's Check issues the external call op, which returns the error err
Call(p, op, err) == calls' = [calls EXCEPT ![cur[p]] = Append(@, [op |-> op, err |-> err])]
Goto(p, l) == pc' = [pc EXCEPT ![p] = l]

\* ------------------------------------------------------------- Check, steps
\* SkipReason without the threshold check, left to evaluateThresholds
SkipReasonNoSentinel(th) ==
  IF nvml = "nil" THEN "NVIDIA NVML instance is nil"
  ELSE IF nvml = "notloaded" THEN "NVIDIA NVML library is not loaded"
  ELSE IF nvml = "noproduct"
    THEN "NVIDIA NVML is loaded but GPU is not detected (missing product name)"
  ELSE IF ~hasIbstatFunc \/ ~hasIbstatusFunc THEN "ibstat checker not found"
  ELSE ""

\* SkipReason with the invocation functions checked before the NVML instance
SkipReasonFuncsFirst(th) ==
  IF IsZero(th) THEN reasonThresholdNotSetSkipped
  ELSE IF ~hasIbstatFunc \/ ~hasIbstatusFunc THEN "ibstat checker not found"
  ELSE IF nvml = "nil" THEN "NVIDIA NVML instance is nil"
  ELSE IF nvml = "notloaded" THEN "NVIDIA NVML library is not loaded"
  ELSE IF nvml = "noproduct"
    THEN "NVIDIA NVML is loaded but GPU is not detected (missing product name)"
  ELSE ""

\* the skips of Check before any tool is invoked: the reason, or "" to go on
SkipReason(th) ==
  IF IsZero(th) THEN reasonThresholdNotSetSkipped
  ELSE IF nvml = "nil" THEN "NVIDIA NVML instance is nil"
  ELSE IF nvml = "notloaded" THEN "NVIDIA NVML library is not loaded"
  ELSE IF nvml = "noproduct"
    THEN "NVIDIA NVML is loaded but GPU is not detected (missing product name)"
  ELSE IF ~hasIbstatFunc \/ ~hasIbstatusFunc THEN "ibstat checker not found"
  ELSE ""

\* Begin that stores cr to c.lastCheckResult as soon as it is allocated
BeginPublishEarly(p, maxChecks) ==
  /\ pc[p] = "check"
  /\ Len(heap) < maxChecks
  /\ \E th \in ThresholdChoices :
       LET skip == SkipReason(th)
           cr == NewCheckResult(now)
       IN /\ thresholds' = [thresholds EXCEPT ![p] = th]
          /\ heap' = Append(heap, IF skip = "" THEN cr
                                  ELSE [cr EXCEPT !.health = Healthy, !.reason = skip])
          /\ Goto(p, IF skip = "" THEN "ibstatus" ELSE "defer")
  /\ cur' = [cur EXCEPT ![p] = Len(heap) + 1]
  /\ calls' = Append(calls, <<>>)
  /\ installs' = Append(installs, 1)
  /\ lastCheckResult' = Len(heap) + 1
  /\ UNCHANGED <<now, tickPending, cancelled, config, store, readerVars>>

\* Check, up to the first tool invocation: allocate cr, read the thresholds, skip
Begin(p, maxChecks) ==
  /\ pc[p] = "check"
  /\ Len(heap) < maxChecks
  /\ \E th \in ThresholdChoices :
       LET skip == SkipReason(th)
           cr == NewCheckResult(now)
       IN /\ thresholds' = [thresholds EXCEPT ![p] = th]
          /\ heap' = Append(heap, IF skip = "" THEN cr
                                  ELSE [cr EXCEPT !.health = Healthy, !.reason = skip])
          /\ Goto(p, IF skip = "" THEN "ibstatus" ELSE "defer")
  /\ cur' = [cur EXCEPT ![p] = Len(heap) + 1]
  /\ calls' = Append(calls, <<>>)
  /\ installs' = Append(installs, 0)
  /\ UNCHANGED <<now, tickPending, cancelled, config, store, lastCheckResult, readerVars>>

\* cr.IbstatusOutput, cr.errIbstatus = c.getIbstatusOutputFunc(...)
InvokeIbstatus(p, results) ==
  /\ pc[p] = "ibstatus"
  /\ \E r \in results :
       /\ SetCR(p, [CR(p) EXCEPT !.IbstatusOutput = r.out, !.errIbstatus = r.err])
       /\ Call(p, "ibstatus", r.err)
  /\ Goto(p, "ibstat")
  /\ UNCHANGED <<now, tickPending, cancelled, config, store, lastCheckResult, installs,
                 cur, thresholds, readerVars>>

\* cr.IbstatOutput, cr.err = c.getIbstatOutputFunc(...) and the if cr.err != nil after it
AfterIbstat(cr, r) ==
  LET cr1 == [cr EXCEPT !.IbstatOutput = r.out, !.err = r.err]
  IN IF r.err = NoError THEN cr1
     ELSE IF r.err = ErrNoIbstatCommand
       THEN [cr1 EXCEPT !.health = Healthy, !.reason = "ibstat command not found"]
     ELSE [cr1 EXCEPT !.health = Unhealthy, !.reason = "ibstat command failed"]

\* cr.allIBPorts: ibstat's ports when it returned an output, else ibstatus's
SelectPorts(cr) ==
  IF ~cr.IbstatOutput.isNil THEN [cr EXCEPT !.allIBPorts = IBPorts(cr.IbstatOutput)]
  ELSE IF ~cr.IbstatusOutput.isNil THEN [cr EXCEPT !.allIBPorts = IBPorts(cr.IbstatusOutput)]
  ELSE cr

\* Check from the ibstat invocation to the call of recordIbEvent
InvokeIbstat(p, results) ==
  /\ pc[p] = "ibstat"
  /\ \E r \in results :
       LET cr1 == AfterIbstat(CR(p), r)
       IN /\ Call(p, "ibstat", r.err)
          /\ IF ~hasBucket
               THEN /\ SetCR(p, [cr1 EXCEPT !.reason = reasonMissingEventBucket,
                                            !.health = Healthy])
                    /\ Goto(p, "defer")
               ELSE /\ SetCR(p, evaluateThresholds(SelectPorts(cr1), thresholds[p]))
                    /\ Goto(p, "find")
  /\ UNCHANGED <<now, tickPending, cancelled, config, store, lastCheckResult, installs,
                 cur, thresholds, readerVars>>

\* FindEvent whose failure leaves Check without running the deferred function
FindEventNoDefer(p) ==
  /\ pc[p] = "find"
  /\ \/ /\ Call(p, "find", ErrStoreFind)
        /\ SetCR(p, [CR(p) EXCEPT !.err = ErrStoreFind, !.health = Unhealthy,
                                  !.reason = "error finding ibstat event"])
        /\ Goto(p, IF p = "loop" THEN "select" ELSE "idle")
     \/ /\ Call(p, "find", NoError)
        /\ \E o \in FindOutcomes(store, convertToIbstatEvent(CR(p))) :
             Goto(p, IF o = "found" THEN "analyze" ELSE "insert")
        /\ UNCHANGED heap
  /\ UNCHANGED <<now, tickPending, cancelled, config, store, lastCheckResult, installs,
                 cur, thresholds, readerVars>>

\* FindEvent that goes on to Insert whatever Find returned
FindEventAlwaysInsert(p) ==
  /\ pc[p] = "find"
  /\ \/ /\ Call(p, "find", ErrStoreFind)
        /\ SetCR(p, [CR(p) EXCEPT !.err = ErrStoreFind, !.health = Unhealthy,
                                  !.reason = "error finding ibstat event"])
        /\ Goto(p, "defer")
     \/ /\ Call(p, "find", NoError)
        /\ \E o \in FindOutcomes(store, convertToIbstatEvent(CR(p))) : Goto(p, "insert")
        /\ UNCHANGED heap
  /\ UNCHANGED <<now, tickPending, cancelled, config, store, lastCheckResult, installs,
                 cur, thresholds, readerVars>>

\* recordIbEvent: c.eventBucket.Find
FindEvent(p) ==
  /\ pc[p] = "find"
  /\ \/ /\ Call(p, "find", ErrStoreFind)
        /\ SetCR(p, [CR(p) EXCEPT !.err = ErrStoreFind, !.health = Unhealthy,
                                  !.reason = "error finding ibstat event"])
        /\ Goto(p, "defer")
     \/ /\ Call(p, "find", NoError)
        /\ \E o \in FindOutcomes(store, convertToIbstatEvent(CR(p))) :
             Goto(p, IF o = "found" THEN "analyze" ELSE "insert")
        /\ UNCHANGED heap
  /\ UNCHANGED <<now, tickPending, cancelled, config, store, lastCheckResult, installs,
                 cur, thresholds, readerVars>>

\* InsertEvent whose failure does not stop Check before the temporal analyzers
InsertEventGoesOn(p) ==
  /\ pc[p] = "insert"
  /\ \/ /\ Call(p, "insert", ErrStoreInsert)
        /\ SetCR(p, [CR(p) EXCEPT !.err = ErrStoreInsert, !.health = Unhealthy,
                                  !.reason = "error inserting ibstat event"])
        /\ Goto(p, "analyze")
        /\ UNCHANGED store
     \/ /\ Call(p, "insert", NoError)
        /\ SetCR(p, [CR(p) EXCEPT !.err = NoError])
        /\ store' = BucketInsert(store, convertToIbstatEvent(CR(p)))
        /\ Goto(p, "analyze")
  /\ UNCHANGED <<now, tickPending, cancelled, config, lastCheckResult, installs,
                 cur, thresholds, readerVars>>

\* InsertEvent whose event reaches the bucket only after the cycle
InsertEventNotYetStored(p) ==
  /\ pc[p] = "insert"
  /\ \/ /\ Call(p, "insert", ErrStoreInsert)
        /\ SetCR(p, [CR(p) EXCEPT !.err = ErrStoreInsert, !.health = Unhealthy,
                                  !.reason = "error inserting ibstat event"])
        /\ Goto(p, "defer")
     \/ /\ Call(p, "insert", NoError)
        /\ SetCR(p, [CR(p) EXCEPT !.err = NoError])
        /\ Goto(p, "analyze")
  /\ UNCHANGED <<now, tickPending, cancelled, config, store, lastCheckResult, installs,
                 cur, thresholds, readerVars>>

\* recordIbEvent: cr.err = c.eventBucket.Insert
InsertEvent(p) ==
  /\ pc[p] = "insert"
  /\ \/ /\ Call(p, "insert", ErrStoreInsert)
        /\ SetCR(p, [CR(p) EXCEPT !.err = ErrStoreInsert, !.health = Unhealthy,
                                  !.reason = "error inserting ibstat event"])
        /\ Goto(p, "defer")
        /\ UNCHANGED store
     \/ /\ Call(p, "insert", NoError)
        /\ SetCR(p, [CR(p) EXCEPT !.err = NoError])
        /\ store' = BucketInsert(store, convertToIbstatEvent(CR(p)))
        /\ Goto(p, "analyze")
  /\ UNCHANGED <<now, tickPending, cancelled, config, lastCheckResult, installs,
                 cur, thresholds, readerVars>>

\* SwitchFaultAndPortDrop whose evaluateIbPortDrop reads the history of a healthy cycle too
SwitchFaultAndPortDropAlways(p) ==
  /\ pc[p] = "analyze"
  /\ LET cr1 == evaluateIbSwitchFault(CR(p))
     IN \/ /\ Call(p, "get", ErrStoreGet)
           /\ SetCR(p, cr1)
        \/ /\ Call(p, "get", NoError)
           /\ LET ibstatEvents ==
                    IbstatEventsOf(BucketGet(store, cr1.ts - LookbackMinutes))
              IN \E order \in MapOrders(DOMAIN DroppedSinceOf(ibstatEvents)) :
                   SetCR(p, [cr1 EXCEPT !.reasonIbPortDrop =
                               PortDropReason(cr1, ibstatEvents, order)])
  /\ Goto(p, "flap")
  /\ UNCHANGED <<now, tickPending, cancelled, config, store, lastCheckResult, installs,
                 cur, thresholds, readerVars>>

\* evaluateIbSwitchFault, then evaluateIbPortDrop with its history read
SwitchFaultAndPortDrop(p) ==
  /\ pc[p] = "analyze"
  /\ LET cr1 == evaluateIbSwitchFault(CR(p))
     IN IF cr1.health = Healthy
          THEN SetCR(p, cr1) /\ UNCHANGED calls
          ELSE \/ /\ Call(p, "get", ErrStoreGet)
                  /\ SetCR(p, cr1)
               \/ /\ Call(p, "get", NoError)
                  /\ LET ibstatEvents ==
                           IbstatEventsOf(BucketGet(store, cr1.ts - LookbackMinutes))
                     IN \E order \in MapOrders(DOMAIN DroppedSinceOf(ibstatEvents)) :
                          SetCR(p, evaluateIbPortDrop(cr1, ibstatEvents, order))
  /\ Goto(p, "flap")
  /\ UNCHANGED <<now, tickPending, cancelled, config, store, lastCheckResult, installs,
                 cur, thresholds, readerVars>>

\* evaluateIbPortFlap with its history read
PortFlap(p) ==
  /\ pc[p] = "flap"
  /\ \/ /\ Call(p, "get", ErrStoreGet)
        /\ UNCHANGED heap
     \/ /\ Call(p, "get", NoError)
        /\ LET ibstatEvents == IbstatEventsOf(BucketGet(store, CR(p).ts - LookbackMinutes))
           IN \E order \in MapOrders(DOMAIN StateTransitionsOf(ibstatEvents, CR(p).ts)) :
                SetCR(p, evaluateIbPortFlap(CR(p), ibstatEvents, order))
  /\ Goto(p, "defer")
  /\ UNCHANGED <<now, tickPending, cancelled, config, store, lastCheckResult, installs,
                 cur, thresholds, readerVars>>

\* the deferred function of Check: c.lastCheckResult = cr under lastMu, then return
Publish(p) ==
  /\ pc[p] = "defer"
  /\ lastCheckResult' = cur[p]
  /\ installs' = [installs EXCEPT ![cur[p]] = @ + 1]
  /\ cur' = [cur EXCEPT ![p] = 0]
  /\ Collect({cur[p]} \cup InProgress(p) \cup {rptr})
  /\ Goto(p, IF p = "loop" THEN "select" ELSE "idle")
  /\ UNCHANGED <<now, tickPending, cancelled, config, store, thresholds, readerVars>>

\* Check with the tools returning any of the given results
Check(p, maxChecks, ibstatusResults, ibstatResults) ==
  \/ Begin(p, maxChecks)
  \/ InvokeIbstatus(p, ibstatusResults)
  \/ InvokeIbstat(p, ibstatResults)
  \/ FindEvent(p)
  \/ InsertEvent(p)
  \/ SwitchFaultAndPortDrop(p)
  \/ PortFlap(p)
  \/ Publish(p)

\* --------------------------------------------------------------- Start loop
\* LoopExit that receives from c.ctx.Done() and waits again
LoopExitKeepsWaiting ==
  /\ pc["loop"] = "select"
  /\ cancelled
  /\ Goto("loop", "select")
  /\ tickPending' = FALSE
  /\ UNCHANGED <<now, cancelled, config, store, heap, calls, lastCheckResult, installs,
                 cur, thresholds, readerVars>>

\* select: case <-c.ctx.Done(): return
LoopExit ==
  /\ pc["loop"] = "select"
  /\ cancelled
  /\ Goto("loop", "exited")
  /\ tickPending' = FALSE
  /\ UNCHANGED <<now, cancelled, config, store, heap, calls, lastCheckResult, installs,
                 cur, thresholds, readerVars>>

\* LoopTick that leaves the tick it received in ticker.C
LoopTickKeepsTick ==
  /\ pc["loop"] = "select"
  /\ tickPending
  /\ tickPending' = tickPending
  /\ Goto("loop", "check")
  /\ UNCHANGED <<now, cancelled, config, store, heap, calls, lastCheckResult, installs,
                 cur, thresholds, readerVars>>

\* select: case <-ticker.C:
LoopTick ==
  /\ pc["loop"] = "select"
  /\ tickPending
  /\ tickPending' = FALSE
  /\ Goto("loop", "check")
  /\ UNCHANGED <<now, cancelled, config, store, heap, calls, lastCheckResult, installs,
                 cur, thresholds, readerVars>>

\* a minute passes; the ticker (period one minute) offers a tick unless it was stopped
Tick(maxTicks) ==
  /\ now < StartTime + maxTicks
  /\ now' = now + 1
  /\ tickPending' = (pc["loop"] # "exited")
  /\ UNCHANGED <<cancelled, config, store, heap, calls, lastCheckResult, installs,
                 pc, cur, thresholds, readerVars>>

\* Close: c.cancel()
Close ==
  /\ ~cancelled
  /\ cancelled' = TRUE
  /\ UNCHANGED <<now, tickPending, config, store, heap, calls, lastCheckResult, installs,
                 pc, cur, thresholds, readerVars>>

\* ------------------------------------------------------- LastHealthStates
\* lastCheckResult := c.lastCheckResult under the read lock
ReadLast ==
  /\ pc["reader"] = "idle"
  /\ rptr' = lastCheckResult
  /\ Goto("reader", "states")
  /\ UNCHANGED <<now, tickPending, cancelled, config, store, heap, calls, lastCheckResult,
                 installs, cur, thresholds, rseen, evs>>

\* return lastCheckResult.HealthStates()
ReturnStates ==
  /\ pc["reader"] = "states"
  /\ rseen' = HealthStates(IF rptr = 0 THEN NewCheckResult(0) ELSE heap[rptr], rptr = 0, now)
  /\ rptr' = 0
  /\ Collect({lastCheckResult} \cup InProgress("reader"))
  /\ Goto("reader", "idle")
  /\ UNCHANGED <<now, tickPending, cancelled, config, store, lastCheckResult,
                 installs, cur, thresholds, evs>>

\* ------------------------------------------------------------------ Events
\* the loop of Events that keeps every event of whatever type but those named "ibstat"
FilterEventsByName(events) == SelectSeq(events, LAMBDA ev : ev.Name # "ibstat")

\* the loop of Events over what Get returned: the ibstat events of type Info are skipped
FilterEvents(events) ==
  SelectSeq(events, LAMBDA ev : ~(ev.Name = "ibstat" /\ ev.Type = "Info"))

\* Events(ctx, since): (nil, nil) without a bucket, (nil, err) when Get fails,
\* else the filtered events
Events(since) ==
  /\ \/ /\ ~hasBucket
        /\ evs' = [called |-> TRUE, since |-> since, isNil |-> TRUE, events |-> <<>>,
                   err |-> NoError]
     \/ /\ hasBucket
        /\ evs' = [called |-> TRUE, since |-> since, isNil |-> TRUE, events |-> <<>>,
                   err |-> ErrStoreGet]
     \/ /\ hasBucket
        /\ evs' = [called |-> TRUE, since |-> since, isNil |-> FALSE,
                   events |-> FilterEvents(BucketGet(store, since)), err |-> NoError]
  /\ UNCHANGED <<now, tickPending, cancelled, config, store, heap, calls, lastCheckResult,
                 installs, pc, cur, thresholds, rptr, rseen>>

\* the tool results of a host with two ports whose ibstatus is broken
AllActive == [i \in 1..2 |-> MkPort(Devices[i], [State |-> "Active", PhysicalState |-> "LinkUp", Rate |-> 400])]
AllDown == [i \in 1..2 |-> MkPort(Devices[i], [State |-> "Down", PhysicalState |-> "Disabled", Rate |-> 0])]
HostIbstatusResults == { [out |-> NilOutput, err |-> ErrIbstatus] }
HostIbstatResults ==
  { [out |-> MkOutput(AllActive), err |-> NoError],
    [out |-> MkOutput(AllDown), err |-> NoError],
    [out |-> NilOutput, err |-> ErrIbstatExec] }

\* the event a cycle run at ts with thresholds th records when ibstatus
\* returns s and ibstat returns r
RecordedEvent(ts, th, s, r) ==
  convertToIbstatEvent(evaluateThresholds(
    SelectPorts(AfterIbstat([NewCheckResult(ts) EXCEPT !.IbstatusOutput = s.out,
                                                       !.errIbstatus = s.err], r)), th))

\* the event store as an earlier run of the component on that host left it
PriorStores ==
  {<<>>} \cup { <<RecordedEvent(StartTime - 1, th, s, r)>> :
                  th \in ThresholdChoices \ {ZeroThresholds},
                  s \in HostIbstatusResults, r \in HostIbstatResults }

\* the cycle Start runs at once, before any tick, the tools returning anything
Next == Check("loop", MaxLoopChecks, IbstatusResults, IbstatResults)

Spec == InitWith(PriorStores) /\ [][Next]_vars

\* the loop of Start on that host, with a concurrent caller of LastHealthStates
LoopNext ==
  \/ Check("loop", MaxLoopChecks, HostIbstatusResults, HostIbstatResults)
  \/ LoopTick
  \/ Tick(MaxLoopTicks)
  \/ ReadLast
  \/ ReturnStates

LoopSpec == Init /\ [][LoopNext]_vars

\* what an earlier cycle read from ibstat: both devices, each Active or Down,
\* or the first device alone, Down
HistoryReadings ==
  { [i \in 1..2 |-> MkPort(Devices[i], f[i])] :
      f \in [1..2 -> { k \in PortKinds : k.Rate # 100 }] }
  \cup { <<MkPort(Devices[1], [State |-> "Down", PhysicalState |-> "Disabled", Rate |-> 0])>> }
HistoryIbstatResults == { [out |-> MkOutput(ports), err |-> NoError] : ports \in HistoryReadings }

\* how many minutes before StartTime the earlier cycles ran
HistoryAges == {1, 2, 4, 5, 6, 11}

\* the ages of a set, the oldest first
OldestFirst(ages) ==
  CHOOSE o \in [1..Cardinality(ages) -> ages] : \A i, j \in DOMAIN o : i < j => o[i] > o[j]

\* the stores that up to MaxHistory earlier cycles of the component, run with
\* the enabled thresholds, have left
HistoryStores ==
  UNION { { [i \in 1..Cardinality(ages) |->
               RecordedEvent(StartTime - OldestFirst(ages)[i],
                             CHOOSE th \in ThresholdChoices : ~IsZero(th),
                             [out |-> NilOutput, err |-> ErrIbstatus], r[i])] :
            r \in [1..Cardinality(ages) -> HistoryIbstatResults] } :
          ages \in { a \in SUBSET HistoryAges : Cardinality(a) <= MaxHistory } }

\* a host with NVML, both tools and an event store that earlier cycles wrote to
HistoryInit ==
  /\ InitWith(HistoryStores)
  /\ nvml = "ok" /\ hasIbstatFunc /\ hasIbstatusFunc /\ hasBucket

\* the cycle Start runs at once on that host
HistoryNext == Check("loop", MaxLoopChecks, HostIbstatusResults, HistoryIbstatResults)

HistorySpec == HistoryInit /\ [][HistoryNext]_vars

\* the minutes before StartTime at which the cycles of the last 4 minutes ran
FlapAges == {1, 2, 3, 4}

\* the stores that the cycles of the last 4 minutes, or some of them, have left
FlapStores ==
  UNION { { [i \in 1..Cardinality(ages) |->
               RecordedEvent(StartTime - OldestFirst(ages)[i],
                             CHOOSE th \in ThresholdChoices : ~IsZero(th),
                             [out |-> NilOutput, err |-> ErrIbstatus], r[i])] :
            r \in [1..Cardinality(ages) -> HistoryIbstatResults] } :
          ages \in SUBSET FlapAges }

\* a host with NVML, both tools and an event store written to every minute
FlapInit ==
  /\ InitWith(FlapStores)
  /\ nvml = "ok" /\ hasIbstatFunc /\ hasIbstatusFunc /\ hasBucket

\* the cycle Start runs at once on that host
FlapNext == Check("loop", MaxLoopChecks, HostIbstatusResults, HistoryIbstatResults)

FlapSpec == FlapInit /\ [][FlapNext]_vars

\* a stored event whose all_ibports payload json.Unmarshal rejects
Corrupted(ev) == [ev EXCEPT !.ExtraInfo = InvalidPayload]

\* the minutes before StartTime at which the events of a damaged store were written
CorruptAges == {2, 4, 5}

\* the events of a cycle at ts that read both devices, as recorded or damaged since
CorruptibleAt(ts) ==
  LET recorded == { RecordedEvent(ts, CHOOSE th \in ThresholdChoices : ~IsZero(th),
                                  [out |-> NilOutput, err |-> ErrIbstatus], r) :
                      r \in { h \in HistoryIbstatResults : Len(h.out.Parsed) = 2 } }
  IN recorded \cup { Corrupted(ev) : ev \in recorded }

\* the stores earlier cycles have left, some of whose payloads no longer decode
CorruptStores ==
  UNION { { e \in [1..Cardinality(ages) ->
                    UNION { CorruptibleAt(StartTime - a) : a \in ages }] :
              \A i \in DOMAIN e : e[i].Time = StartTime - OldestFirst(ages)[i] } :
          ages \in SUBSET CorruptAges }

\* a host with NVML, both tools and such an event store
CorruptInit ==
  /\ InitWith(CorruptStores)
  /\ nvml = "ok" /\ hasIbstatFunc /\ hasIbstatusFunc /\ hasBucket

\* the cycle Start runs at once on that host
CorruptNext == Check("loop", MaxLoopChecks, HostIbstatusResults, HistoryIbstatResults)

CorruptSpec == CorruptInit /\ [][CorruptNext]_vars

\* an event the kmsg syncer wrote to the bucket of the component
KmsgEvent(ts, type) ==
  [ Time |-> ts, Name |-> "port_module_high_temperature", Type |-> type,
    Message |-> "Overheated MLX5 adapter", ExtraInfo |-> InvalidPayload ]

\* how many minutes before StartTime the events of the bucket were written
EventAges == {1, 2, 3}

\* the events a cycle of the host or the kmsg syncer can have written at ts
EventsAt(ts) ==
  { RecordedEvent(ts, CHOOSE th \in ThresholdChoices : ~IsZero(th), s, r) :
      s \in HostIbstatusResults, r \in HostIbstatResults }
  \cup { KmsgEvent(ts, type) : type \in {"Info", "Warning"} }

\* the buckets holding up to MaxHistory events, of the cycles and of the kmsg syncer
EventStores ==
  UNION { { e \in [1..Cardinality(ages) -> UNION { EventsAt(StartTime - a) : a \in ages }] :
              \A i \in DOMAIN e : e[i].Time = StartTime - OldestFirst(ages)[i] } :
          ages \in { a \in SUBSET EventAges : Cardinality(a) <= MaxHistory } }

\* the times a caller of Events asks from
SinceChoices == (StartTime - 3)..(StartTime + 1)

\* a host with NVML and both tools, with or without an event store
EventsInit ==
  /\ InitWith(EventStores)
  /\ nvml = "ok" /\ hasIbstatFunc /\ hasIbstatusFunc

\* callers of Events while the first cycle of the loop runs
EventsNext ==
  \/ Check("loop", MaxLoopChecks, HostIbstatusResults, HostIbstatResults)
  \/ \E since \in SinceChoices : Events(since)

EventsSpec == EventsInit /\ [][EventsNext]_vars

\* ibstat on a host whose two ports stay down
DownIbstatResults == { [out |-> MkOutput(AllDown), err |-> NoError] }

\* a caller outside the loop enters Check
OnDemand ==
  /\ pc["caller"] = "idle"
  /\ Goto("caller", "check")
  /\ UNCHANGED <<now, tickPending, cancelled, config, store, heap, calls, lastCheckResult,
                 installs, cur, thresholds, readerVars>>

\* a host with NVML, both tools and an event store that is empty
OnDemandInit ==
  /\ Init
  /\ nvml = "ok" /\ hasIbstatFunc /\ hasIbstatusFunc /\ hasBucket

\* the loop of Start and callers of Check that run while it does
OnDemandNext ==
  \/ Check("loop", MaxLoopChecks, HostIbstatusResults, DownIbstatResults)
  \/ OnDemand
  \/ Check("caller", MaxLoopChecks, HostIbstatusResults, DownIbstatResults)
  \/ LoopTick
  \/ Tick(MaxLoopTicks)

OnDemandSpec == OnDemandInit /\ [][OnDemandNext]_vars

\* the loop of Start alone on that host, until Close
CycleNext ==
  \/ Check("loop", MaxLoopChecks, HostIbstatusResults, HostIbstatResults)
  \/ LoopExit
  \/ LoopTick
  \/ Tick(MaxLoopTicks)
  \/ Close

\* the goroutine of Start is scheduled whenever it can run, and every call it
\* makes returns
CycleSpec ==
  /\ Init
  /\ [][CycleNext]_vars
  /\ WF_vars(Check("loop", MaxLoopChecks, HostIbstatusResults, HostIbstatResults))
  /\ WF_vars(LoopTick)

\* the loop of Start on a host with both tools and an event store, and a
\* caller of LastHealthStates
QueryNext ==
  \/ Check("loop", MaxLoopChecks, HostIbstatusResults, DownIbstatResults)
  \/ LoopTick
  \/ Tick(MaxLoopTicks)
  \/ ReadLast
  \/ ReturnStates

QuerySpec == OnDemandInit /\ [][QueryNext]_vars

\* the loop of Start until Close and after it: the goroutine is scheduled
\* whenever it can run, every call it makes returns, and a select that is
\* entered again and again with c.ctx.Done() ready takes that case at some
\* time, the choice among the ready cases being uniformly random
ShutdownSpec ==
  /\ Init
  /\ [][CycleNext]_vars
  /\ WF_vars(Check("loop", MaxLoopChecks, HostIbstatusResults, HostIbstatResults))
  /\ WF_vars(LoopTick)
  /\ SF_vars(LoopExit)

\* =================================================================== claims
\* the cycle the loop began last: in progress, or published
LoopCycle == IF cur["loop"] # 0 THEN cur["loop"] ELSE lastCheckResult
\* the loop's last cycle has published its verdict
Finished == cur["loop"] = 0 /\ lastCheckResult # 0
Verdict == heap[lastCheckResult]
VerdictCalls == calls[lastCheckResult]
LoopThresholds == thresholds["loop"]

\* the cycle with call log cl issued op, which returned err
Returned(cl, op, err) == \E i \in DOMAIN cl : cl[i].op = op /\ cl[i].err = err
Issued(cl, op) == \E i \in DOMAIN cl : cl[i].op = op
Ops(cl) == [i \in DOMAIN cl |-> cl[i].op]
NoTemporalReason(cr) ==
  cr.reasonIbSwitchFault = "" /\ cr.reasonIbPortDrop = "" /\ cr.reasonIbPortFlap = ""

\* C1: a cycle whose thresholds are both zero issues no external call at all
\* (no data source, no Find, Insert or Get), never leaves the skip path, sets
\* none of the three temporal reasons, and its verdict is healthy.
C1_DisabledSentinel ==
  (LoopCycle # 0 /\ IsZero(LoopThresholds)) =>
     /\ calls[LoopCycle] = <<>>
     /\ pc["loop"] \in {"defer", "select", "check", "exited"}
     /\ heap[LoopCycle].health = Healthy
     /\ heap[LoopCycle].reason = reasonThresholdNotSetSkipped
     /\ NoTemporalReason(heap[LoopCycle])

\* a disabled policy published on a host where every tool and the store are there
C1_Witness ==
  /\ Finished /\ IsZero(LoopThresholds)
  /\ nvml = "ok" /\ hasIbstatFunc /\ hasIbstatusFunc /\ hasBucket
  /\ Verdict.health = Healthy

\* the first skip condition that matches, in the order of the claim
SkipKind(th) ==
  IF IsZero(th) THEN "policy"
  ELSE IF nvml # "ok" THEN "instrumentation"
  ELSE IF ~hasIbstatFunc \/ ~hasIbstatusFunc THEN "functions"
  ELSE IF ~hasBucket THEN "store"
  ELSE "none"

SkipKindReasons(k) ==
  IF k = "policy" THEN {reasonThresholdNotSetSkipped}
  ELSE IF k = "instrumentation"
    THEN {"NVIDIA NVML instance is nil", "NVIDIA NVML library is not loaded",
          "NVIDIA NVML is loaded but GPU is not detected (missing product name)"}
  ELSE IF k = "functions" THEN {"ibstat checker not found"}
  ELSE {reasonMissingEventBucket}

\* C2: the skips are taken in the order policy disabled, instrumentation
\* absent, an invocation function unset, no event store (the last after both
\* tools were invoked); the first that matches decides the reason, the verdict
\* is healthy, and the cycle neither touches the store nor analyzes history.
C2_SkipOrdering ==
  LET k == SkipKind(LoopThresholds)
  IN (LoopCycle # 0 /\ k # "none") =>
       /\ pc["loop"] \notin {"find", "insert", "analyze", "flap"}
       /\ k # "store" => /\ calls[LoopCycle] = <<>>
                         /\ pc["loop"] \notin {"ibstatus", "ibstat"}
       /\ \A op \in {"find", "insert", "get"} : ~Issued(calls[LoopCycle], op)
       /\ pc["loop"] \notin {"ibstatus", "ibstat"} =>
            /\ heap[LoopCycle].health = Healthy
            /\ heap[LoopCycle].reason \in SkipKindReasons(k)
            /\ NoTemporalReason(heap[LoopCycle])
            /\ k = "store" => Ops(calls[LoopCycle]) = <<"ibstatus", "ibstat">>

\* the store is missing and ibstat failed on ports below the thresholds: healthy
C2_Witness ==
  /\ Finished /\ SkipKind(LoopThresholds) = "store"
  /\ Returned(VerdictCalls, "ibstat", ErrIbstatExec)
  /\ ~Verdict.IbstatOutput.isNil
  /\ \E i \in DOMAIN Verdict.IbstatOutput.Parsed : Verdict.IbstatOutput.Parsed[i].State = "Down"
  /\ Verdict.health = Healthy

\* the labels of a Check in progress
CheckLabels == {"ibstatus", "ibstat", "find", "insert", "analyze", "flap", "defer"}

\* C3: c.lastCheckResult changes only at the deferred function of a Check
\* whose every step is done, and to that Check's own cr; a checkResult that is
\* installed or held by a reader stays as it is; the checkResult a reader of
\* LastHealthStates holds is nil or one that was installed and that no Check
\* in progress points to, and what the reader returns is its HealthStates.
C3_AtomicPublication ==
  /\ [][lastCheckResult' # lastCheckResult =>
          /\ pc["loop"] = "defer"
          /\ lastCheckResult' = cur["loop"]
          /\ heap'[lastCheckResult'] = heap[cur["loop"]]]_vars
  /\ [][\A i \in DOMAIN heap :
          (installs[i] >= 1 /\ i \in {lastCheckResult', rptr'}) => heap'[i] = heap[i]]_vars
  /\ [](lastCheckResult # 0 =>
          installs[lastCheckResult] >= 1 /\ \A p \in Procs : cur[p] # lastCheckResult)
  /\ [](rptr # 0 => installs[rptr] >= 1 /\ \A p \in Procs : cur[p] # rptr)
  /\ [][pc["reader"] = "states" /\ pc'["reader"] = "idle" =>
          rseen' = HealthStates(IF rptr = 0 THEN NewCheckResult(0) ELSE heap[rptr],
                                rptr = 0, now)]_vars

\* a reader holds the previous verdict while the next cycle analyzes history
C3_Witness ==
  /\ pc["reader"] = "states" /\ rptr # 0 /\ rptr = lastCheckResult
  /\ cur["loop"] # 0 /\ pc["loop"] = "flap"
  /\ heap[cur["loop"]].health # heap[rptr].health

\* C4: a cycle in progress leaves Check only by storing its own cr to
\* c.lastCheckResult, once, and going back to the select of the loop; no cr is
\* stored twice; the loop exits only when cancelled; every cycle that began
\* ends; a loop waiting with a tick pending runs Check again unless cancelled,
\* and a Check that is called begins its cycle.
C4_EveryCycleInstalls ==
  /\ [][(cur["loop"] # 0 /\ pc'["loop"] \notin CheckLabels) =>
          /\ pc'["loop"] = "select"
          /\ cur'["loop"] = 0
          /\ lastCheckResult' = cur["loop"]
          /\ installs[cur["loop"]] = 0
          /\ installs'[cur["loop"]] = 1]_vars
  /\ [](\A i \in DOMAIN installs : installs[i] <= 1)
  /\ [](pc["loop"] = "exited" => cancelled)
  /\ (cur["loop"] # 0) ~> (cur["loop"] = 0)
  /\ (pc["loop"] = "select" /\ tickPending) ~> (pc["loop"] = "check" \/ cancelled)
  /\ (pc["loop"] = "check" /\ Len(heap) < MaxLoopChecks) ~> (cur["loop"] # 0)

\* the second cycle ended on a failed store lookup and the loop waits again
C4_Witness ==
  /\ Len(heap) = 2 /\ Finished /\ lastCheckResult = 2
  /\ Returned(VerdictCalls, "find", ErrStoreFind)
  /\ Verdict.health = Unhealthy
  /\ pc["loop"] = "select" /\ ~cancelled

\* the store failed while the cycle with call log cl recorded its event
StoreFailed(cl) == Returned(cl, "find", ErrStoreFind) \/ Returned(cl, "insert", ErrStoreInsert)

\* the port list ports is not empty and meets the thresholds th
Satisfies(ports, th) ==
  Len(ports) > 0 /\ EvaluatePortsAndRate(ports, th.AtLeastPorts, th.AtLeastRate).err = NoError
Violates(ports, th) ==
  Len(ports) > 0 /\ EvaluatePortsAndRate(ports, th.AtLeastPorts, th.AtLeastRate).err # NoError

\* C5 (as claimed): a cycle whose ibstat fails with "not installed" writes no
\* event to the store and publishes a healthy verdict.
C5_ToolNotInstalled ==
  (LoopCycle # 0 /\ Returned(calls[LoopCycle], "ibstat", ErrNoIbstatCommand)) =>
     /\ ~Issued(calls[LoopCycle], "insert")
     /\ (Finished /\ ~StoreFailed(VerdictCalls)) => Verdict.health = Healthy

\* C6 (as claimed): with an event store, a cycle whose ibstat ran and failed
\* publishes an unhealthy verdict, unless ibstat's own partial output meets
\* the thresholds (then healthy, the error discarded).
C6_ToolExecutionError ==
  (Finished /\ hasBucket /\ Returned(VerdictCalls, "ibstat", ErrIbstatExec)) =>
     \/ Verdict.health = Unhealthy
     \/ /\ ~Verdict.IbstatOutput.isNil
        /\ Satisfies(IBPorts(Verdict.IbstatOutput), LoopThresholds)
        /\ Verdict.health = Healthy
        /\ getError(Verdict) = ""

\* C7 (as claimed): when ibstat ran and failed, the evaluated ports violate the
\* thresholds and the store did not fail, the verdict's error is ibstat's error.
C7_PrimaryErrorEscalation ==
  (/\ Finished
   /\ Returned(VerdictCalls, "ibstat", ErrIbstatExec)
   /\ Violates(Verdict.allIBPorts, LoopThresholds)
   /\ ~StoreFailed(VerdictCalls)) =>
     getError(Verdict) = ErrIbstatExec

\* the classification of a finished cycle, from everything but the error of ibstatus
HealthWithoutFallbackError(cr, cl, th) ==
  IF SkipKind(th) # "none" THEN Healthy
  ELSE IF StoreFailed(cl) THEN Unhealthy
  ELSE LET ports == IF ~cr.IbstatOutput.isNil THEN IBPorts(cr.IbstatOutput)
                    ELSE IBPorts(cr.IbstatusOutput)
       IN IF Violates(ports, th) THEN Unhealthy ELSE Healthy

\* C8: the error of ibstatus is never the error of a published verdict, and the
\* classification of a verdict is a function of the thresholds, the
\* configuration, ibstat's result, the output of ibstatus and the store's
\* outcomes: the error of ibstatus has no part in it.
C8_FallbackError ==
  /\ lastCheckResult # 0 => HealthStates(Verdict, FALSE, now).Error # ErrIbstatus
  /\ Finished =>
       Verdict.health = HealthWithoutFallbackError(Verdict, VerdictCalls, LoopThresholds)

\* ibstatus failed, ibstat reported ports below the thresholds: unhealthy, no error
C8_Witness ==
  /\ Finished /\ Returned(VerdictCalls, "ibstatus", ErrIbstatus)
  /\ Verdict.errIbstatus = ErrIbstatus
  /\ Returned(VerdictCalls, "ibstat", NoError)
  /\ Verdict.health = Unhealthy
  /\ HealthStates(Verdict, FALSE, now).Error = ""

\* ibstat failed with a partial output that meets the thresholds
PartialOutputOK ==
  /\ Finished
  /\ Returned(VerdictCalls, "ibstat", ErrIbstatExec)
  /\ ~Verdict.IbstatOutput.isNil
  /\ Satisfies(IBPorts(Verdict.IbstatOutput), LoopThresholds)

\* C9 (as claimed): whenever ibstat fails with a partial output that meets the
\* thresholds, the verdict is healthy and its error is empty.
C9_PartialOutputOverride_Original ==
  PartialOutputOK => (Verdict.health = Healthy /\ getError(Verdict) = "")

\* C9 (amended): whenever ibstat fails with a partial output that meets the
\* thresholds, an event store is configured and its Find and Insert do not
\* fail, the verdict is healthy with the no-issue reason and its error is
\* empty; without an event store the verdict is healthy with the
\* missing-store reason.
C9_PartialOutputOverride ==
  (PartialOutputOK /\ ~StoreFailed(VerdictCalls)) =>
     /\ Verdict.health = Healthy
     /\ hasBucket => getError(Verdict) = "" /\ Verdict.reason = reasonNoIbIssueFoundFromIbstat
     /\ ~hasBucket => Verdict.reason = reasonMissingEventBucket

C9_Witness ==
  /\ PartialOutputOK /\ hasBucket /\ ~StoreFailed(VerdictCalls)
  /\ Verdict.health = Healthy /\ getError(Verdict) = ""

\* both tools were invoked under an enabled policy and neither reported a port
NoPortFromEither ==
  /\ Finished
  /\ ~IsZero(LoopThresholds)
  /\ Issued(VerdictCalls, "ibstat")
  /\ Len(IBPorts(Verdict.IbstatOutput)) = 0
  /\ Len(IBPorts(Verdict.IbstatusOutput)) = 0

\* C10 (as claimed): when neither tool reported a port, the verdict is healthy
\* with the missing-output reason, no unhealthy port and no suggested action.
C10_MissingOutput_Original ==
  NoPortFromEither =>
     /\ Verdict.health = Healthy
     /\ Verdict.reason = reasonMissingIbstatIbstatusOutput
     /\ Verdict.unhealthyIBPorts = <<>>
     /\ Verdict.suggestedActions = <<>>

\* C10 (amended): when neither tool reported a port, the verdict has no
\* unhealthy port and no suggested action; it is healthy with the
\* missing-output reason when an event store is configured and its Find and
\* Insert do not fail, healthy with the missing-store reason when no store is
\* configured, and unhealthy with the store's reason when Find or Insert fails.
C10_MissingOutput ==
  NoPortFromEither =>
     /\ Verdict.unhealthyIBPorts = <<>>
     /\ Verdict.suggestedActions = <<>>
     /\ (hasBucket /\ ~StoreFailed(VerdictCalls)) =>
          Verdict.health = Healthy /\ Verdict.reason = reasonMissingIbstatIbstatusOutput
     /\ ~hasBucket => Verdict.health = Healthy /\ Verdict.reason = reasonMissingEventBucket
     /\ StoreFailed(VerdictCalls) =>
          /\ Verdict.health = Unhealthy
          /\ Verdict.reason \in {"error finding ibstat event", "error inserting ibstat event"}

\* ibstat failed without output, ibstatus reported an empty list: missing output
C10_Witness ==
  /\ NoPortFromEither /\ hasBucket /\ ~StoreFailed(VerdictCalls)
  /\ Returned(VerdictCalls, "ibstat", ErrIbstatExec)
  /\ Verdict.IbstatOutput.isNil /\ ~Verdict.IbstatusOutput.isNil
  /\ Verdict.reason = reasonMissingIbstatIbstatusOutput

\* the cycle of the published verdict went past the skips and evaluated its ports
Evaluated == Finished /\ Issued(VerdictCalls, "find")

\* C11 (as claimed): the ports a cycle evaluates are ibstat's when ibstat
\* reported at least one port, and the ports of ibstatus otherwise.
C11_SourceSelection ==
  Evaluated =>
    Verdict.allIBPorts = IF Len(IBPorts(Verdict.IbstatOutput)) > 0
                           THEN IBPorts(Verdict.IbstatOutput)
                           ELSE IBPorts(Verdict.IbstatusOutput)

\* the checkResult of the loop's last cycle and its call log
Cycle == heap[LoopCycle]
CycleCalls == calls[LoopCycle]
\* the loop's last cycle has run evaluateThresholds and the store has not failed since
AfterEvaluation ==
  /\ LoopCycle # 0 /\ hasBucket
  /\ Issued(CycleCalls, "ibstat")
  /\ ~StoreFailed(CycleCalls)

\* the indices of the ports that are Active at a rate of at least minRate
ActiveAtRate(ports, minRate) ==
  { i \in 1..Len(ports) : ports[i].State = "Active" /\ ports[i].Rate >= minRate }
\* the ports of the list outside idx, in the order of the list
PortsOutside(ports, idx) ==
  LET F[i \in 0..Len(ports)] ==
        IF i = 0 THEN <<>>
        ELSE IF i \in idx THEN F[i - 1] ELSE Append(F[i - 1], ports[i])
  IN F[Len(ports)]

\* the ports of the example: A Active at rate 10, B Down
ExamplePorts ==
  << [Device |-> "A", State |-> "Active", PhysicalState |-> "LinkUp", Rate |-> 10],
     [Device |-> "B", State |-> "Down", PhysicalState |-> "Disabled", Rate |-> 0] >>

\* C12: once a cycle has evaluated a non-empty port list under enabled
\* thresholds, it is unhealthy with unhealthyIBPorts exactly the ports that are
\* not Active at the required rate when fewer than AtLeastPorts ports are, and
\* healthy with no unhealthy port otherwise; ports A (Active, rate 10) and
\* B (Down) under thresholds 2 ports / rate 5 give the unhealthy ports [B].
C12_ThresholdCorrectness ==
  /\ (AfterEvaluation /\ Len(Cycle.allIBPorts) > 0) =>
       LET ok == ActiveAtRate(Cycle.allIBPorts, LoopThresholds.AtLeastRate)
       IN IF Cardinality(ok) < LoopThresholds.AtLeastPorts
            THEN /\ Cycle.health = Unhealthy
                 /\ Cycle.unhealthyIBPorts = PortsOutside(Cycle.allIBPorts, ok)
            ELSE /\ Cycle.health = Healthy
                 /\ Cycle.unhealthyIBPorts = <<>>
  /\ LET r == EvaluatePortsAndRate(ExamplePorts, 2, 5)
     IN r.err # NoError /\ r.unhealthy = <<ExamplePorts[2]>>

\* one port Active at the rate, one Active below it, two required: the slow port reported
C12_Witness ==
  /\ Evaluated /\ ~StoreFailed(VerdictCalls)
  /\ Len(Verdict.allIBPorts) = 2
  /\ Verdict.allIBPorts[1].State = "Active" /\ Verdict.allIBPorts[1].Rate >= 200
  /\ Verdict.allIBPorts[2].State = "Active" /\ Verdict.allIBPorts[2].Rate < 200
  /\ Verdict.health = Unhealthy
  /\ Verdict.unhealthyIBPorts = <<Verdict.allIBPorts[2]>>

\* C13: the health record of a published verdict carries suggested actions if
\* and only if its cycle ran the threshold evaluation and the evaluated ports
\* violate the thresholds, and then they are exactly the hardware inspection.
C13_SuggestedActions ==
  Finished =>
    LET actions == HealthStates(Verdict, FALSE, now).SuggestedActions
    IN /\ actions \in {<<>>, HardwareInspection}
       /\ actions # <<>> <=>
            (Evaluated /\ Violates(Verdict.allIBPorts, LoopThresholds))

\* the evaluated ports violate the thresholds: the hardware inspection is suggested
C13_Witness ==
  /\ Evaluated /\ Violates(Verdict.allIBPorts, LoopThresholds)
  /\ Verdict.health = Unhealthy
  /\ HealthStates(Verdict, FALSE, now).SuggestedActions = HardwareInspection

\* the events of the store with the content of ev
SameContentIn(events, ev) == { i \in 1..Len(events) : SameContent(events[i], ev) }
\* Find returned an event to the cycle with call log cl: it went on without Insert
FoundExisting(cl) == Returned(cl, "find", NoError) /\ ~Issued(cl, "insert")

\* C14: a cycle whose Find returns an existing event leaves the store as it is
\* at that step and at every later step of the cycle, and issues no Insert;
\* when the second of two cycles finds the event of the first, the store holds
\* exactly one event with that content; the store never holds two events of
\* the same time and content.
C14_DedupIdempotence ==
  /\ [][(pc["loop"] = "find" /\ pc'["loop"] = "analyze") =>
          /\ store' = store
          /\ SameContentIn(store, convertToIbstatEvent(heap[cur["loop"]])) # {}]_vars
  /\ [][(/\ cur["loop"] # 0 /\ FoundExisting(calls[cur["loop"]])
          /\ pc["loop"] \in {"analyze", "flap", "defer"}) =>
          /\ store' = store
          /\ pc'["loop"] # "insert"]_vars
  /\ [](/\ Finished /\ lastCheckResult = 2 /\ FoundExisting(VerdictCalls)
          => /\ Len(store) = 1
             /\ Cardinality(SameContentIn(store, convertToIbstatEvent(Verdict))) = 1)
  /\ [](\A i, j \in 1..Len(store) :
          (i # j /\ store[i].Time = store[j].Time) => ~SameContent(store[i], store[j]))

\* the second cycle recorded what the first did and Find returned the first's event
C14_Witness ==
  /\ Finished /\ lastCheckResult = 2 /\ FoundExisting(VerdictCalls)
  /\ Len(store) = 1 /\ store[1].Time < Verdict.ts
  /\ SameContent(store[1], convertToIbstatEvent(Verdict))

\* C15: once Find or Insert has failed in a cycle, the cycle is at its return,
\* its verdict is unhealthy with the reason and the error of the failed store
\* call, the three temporal reasons are empty and no history read was issued.
C15_StoreError ==
  (LoopCycle # 0 /\ StoreFailed(CycleCalls)) =>
     /\ pc["loop"] \notin {"analyze", "flap"}
     /\ Cycle.health = Unhealthy
     /\ \/ /\ Returned(CycleCalls, "find", ErrStoreFind)
           /\ Cycle.reason = "error finding ibstat event"
           /\ getError(Cycle) = ErrStoreFind
           /\ ~Issued(CycleCalls, "insert")
        \/ /\ Returned(CycleCalls, "insert", ErrStoreInsert)
           /\ Cycle.reason = "error inserting ibstat event"
           /\ getError(Cycle) = ErrStoreInsert
     /\ NoTemporalReason(Cycle)
     /\ Summary(Cycle) = Cycle.reason
     /\ ~Issued(CycleCalls, "get")

\* Insert failed on a cycle whose ports are all unhealthy: no switch fault reported
C15_Witness ==
  /\ Finished /\ Returned(VerdictCalls, "insert", ErrStoreInsert)
  /\ Len(Verdict.unhealthyIBPorts) = 2 /\ Len(Verdict.allIBPorts) = 2
  /\ Verdict.health = Unhealthy
  /\ Verdict.reasonIbSwitchFault = ""

\* the loop's last cycle has run evaluateIbSwitchFault
ReachedAnalysis == AfterEvaluation /\ pc["loop"] \in {"flap", "defer", "select"}
\* the output of the tool whose ports the cycle evaluated
SupplyingOutput(cr) == IF ~cr.IbstatOutput.isNil THEN cr.IbstatOutput ELSE cr.IbstatusOutput

\* C16: in a cycle that has reached the temporal analysis, the switch-fault
\* reason is set (to "ib switch fault, all ports down") if and only if the
\* verdict is unhealthy, it has unhealthy ports, and they are as many as the
\* ports, more than zero, of the tool output the cycle evaluated.
C16_SwitchFault ==
  ReachedAnalysis =>
    /\ Cycle.reasonIbSwitchFault \in {"", "ib switch fault, all ports down"}
    /\ Cycle.reasonIbSwitchFault # "" <=>
         /\ Cycle.health = Unhealthy
         /\ Len(Cycle.unhealthyIBPorts) > 0
         /\ Len(IBPorts(SupplyingOutput(Cycle))) > 0
         /\ Len(Cycle.unhealthyIBPorts) = Len(IBPorts(SupplyingOutput(Cycle)))

\* ibstat returned nothing, ibstatus two ports, both unhealthy: switch fault
C16_Witness ==
  /\ ReachedAnalysis /\ Finished
  /\ Verdict.IbstatOutput.isNil
  /\ Len(IBPorts(Verdict.IbstatusOutput)) = 2 /\ Len(Verdict.unhealthyIBPorts) = 2
  /\ Verdict.reasonIbSwitchFault = "ib switch fault, all ports down"

\* the history reads of a cycle, in the order it issued them
Gets(cl) == SelectSeq(cl, LAMBDA c : c.op = "get")
\* the ibstat events of the 10-minute window of the loop's last cycle, oldest first
Window == IbstatEventsOf(BucketGet(store, Cycle.ts - LookbackMinutes))
\* the loop's last cycle is unhealthy and the port-drop analyzer has read its history
DropAnalyzed ==
  /\ ReachedAnalysis /\ Cycle.health = Unhealthy
  /\ Len(Gets(CycleCalls)) >= 1 /\ Gets(CycleCalls)[1].err = NoError

\* the events of the list that report device d, and the state they report
ReadingsOf(d, events) ==
  { i \in 1..Len(events) :
      \E k \in 1..Len(parseIBPortsFromEvent(events[i])) :
        parseIBPortsFromEvent(events[i])[k].Device = d }
StateOf(d, ev) ==
  LET ports == parseIBPortsFromEvent(ev)
  IN ports[CHOOSE k \in 1..Len(ports) : ports[k].Device = d].State
\* the readings of d from which on every reading of d is Down
DownRun(d, events) ==
  { i \in ReadingsOf(d, events) :
      \A j \in ReadingsOf(d, events) : j >= i => StateOf(d, events[j]) = "Down" }
\* the time of the event at which the current run of Down readings of d began
DownSince(d, events) ==
  events[CHOOSE i \in DownRun(d, events) : \A j \in DownRun(d, events) : i <= j].Time

\* the messages text[d] of the devices of named, in ascending order of the
\* device names, joined with ", "
RECURSIVE InNameOrder(_, _, _)
InNameOrder(named, text, i) ==
  IF i > Len(Devices) THEN ""
  ELSE LET rest == InNameOrder(named, text, i + 1)
       IN IF Devices[i] \notin named THEN rest
          ELSE IF rest = "" THEN text[Devices[i]]
          ELSE text[Devices[i]] \o ", " \o rest
DeviceSet == { Devices[i] : i \in 1..Len(Devices) }

\* the devices whose current run of Down readings in the window began at
\* least 4 minutes before the cycle
DroppedDevices ==
  { d \in DeviceSet : /\ DownRun(d, Window) # {}
                      /\ Cycle.ts - DownSince(d, Window) >= 4 }

\* C17: in an unhealthy cycle whose port-drop analyzer has read the 10-minute
\* history, the port-drop reason names exactly the devices whose current
\* unbroken run of Down readings began at an event at least 4 minutes before
\* the cycle timestamp, each as "<device> dropped <n> minutes ago"; a device
\* whose run began less than 4 minutes before is not named.
C17_PortDropTiming ==
  DropAnalyzed =>
    Cycle.reasonIbPortDrop =
      IF DroppedDevices = {} THEN ""
      ELSE "ib port drop -- " \o
           InNameOrder(DroppedDevices,
                       [d \in DroppedDevices |->
                          d \o " dropped " \o RelTime(DownSince(d, Window), Cycle.ts)], 1)

\* the first device went down exactly 4 minutes ago and is named, the second
\* went down 2 minutes ago and is not
C17_Witness ==
  /\ DropAnalyzed /\ Finished
  /\ DroppedDevices = {Devices[1]}
  /\ Cycle.ts - DownSince(Devices[1], Window) = 4
  /\ DownRun(Devices[2], Window) # {}
  /\ Cycle.ts - DownSince(Devices[2], Window) = 2
  /\ Cycle.reasonIbPortDrop = "ib port drop -- mlx5_0 dropped 4 minutes ago"

\* the port-drop reason that names the devices of named, each down since since[d]
DropFormat(named, since, ts) ==
  IF named = {} THEN ""
  ELSE "ib port drop -- " \o
       InNameOrder(named, [d \in named |-> d \o " dropped " \o RelTime(since[d], ts)], 1)
\* the sets of devices a port-drop reason of a cycle at ts names, each down
\* since the time of one of the events
NamedInDrop(reason, ts, events) ==
  { named \in SUBSET DeviceSet :
      \E since \in [named -> { events[i].Time : i \in 1..Len(events) }] :
        reason = DropFormat(named, since, ts) }
\* d was reported Down by an earlier event of the window, and by its latest
\* event in another state
Recovered(d, events) ==
  /\ Len(events) >= 2
  /\ Len(events) \in ReadingsOf(d, events)
  /\ StateOf(d, events[Len(events)]) # "Down"
  /\ \E i \in ReadingsOf(d, events) : i < Len(events) /\ StateOf(d, events[i]) = "Down"

\* C18: in an unhealthy cycle whose port-drop analyzer has read the history,
\* the port-drop reason names a set of devices, and no device that an earlier
\* event of the window reported Down and the latest event reports in another
\* state is among them.
C18_PortDropRecovery ==
  DropAnalyzed =>
    /\ NamedInDrop(Cycle.reasonIbPortDrop, Cycle.ts, Window) # {}
    /\ \A d \in DeviceSet :
         Recovered(d, Window) =>
           \A named \in NamedInDrop(Cycle.reasonIbPortDrop, Cycle.ts, Window) : d \notin named

\* the first device was down from 6 minutes ago and is Active in the latest
\* event; only the second, down throughout, is named
C18_Witness ==
  /\ DropAnalyzed /\ Finished
  /\ Recovered(Devices[1], Window)
  /\ Cycle.ts - Window[1].Time = 6
  /\ 1 \in ReadingsOf(Devices[1], Window) /\ StateOf(Devices[1], Window[1]) = "Down"
  /\ Len(Window) >= 3 /\ StateOf(Devices[1], Window[2]) = "Down"
  /\ Window[Len(Window)].Time = Cycle.ts
  /\ Cycle.reasonIbPortDrop = "ib port drop -- mlx5_1 dropped 6 minutes ago"

\* the loop's last cycle has run the port-flap analyzer and its history read succeeded
FlapAnalyzed ==
  /\ ReachedAnalysis /\ pc["loop"] \in {"defer", "select"}
  /\ Len(Gets(CycleCalls)) >= 1 /\ Gets(CycleCalls)[Len(Gets(CycleCalls))].err = NoError

\* the events of the window that are at most 4 minutes older than the cycle
Trailing == SelectSeq(Window, LAMBDA e : Cycle.ts - e.Time <= 4)
\* the readings of d at which its state differs from its reading before
ChangesOf(d, events) ==
  { i \in ReadingsOf(d, events) :
      \A j \in ReadingsOf(d, events) :
        (j < i /\ \A k \in ReadingsOf(d, events) : ~(j < k /\ k < i))
          => StateOf(d, events[j]) # StateOf(d, events[i]) }
\* the states of d over the events, consecutive duplicates collapsed
Collapsed(d, events) ==
  LET F[i \in 0..Len(events)] ==
        IF i = 0 THEN <<>>
        ELSE IF i \in ChangesOf(d, events) THEN Append(F[i - 1], StateOf(d, events[i]))
        ELSE F[i - 1]
  IN F[Len(events)]
\* the last (up to 4) states of a sequence, joined with " -> "
Arrows(tr) ==
  LET first == IF Len(tr) > 4 THEN Len(tr) - 3 ELSE 1
      F[i \in first..Len(tr)] == IF i = first THEN tr[i] ELSE F[i - 1] \o " -> " \o tr[i]
  IN F[Len(tr)]
\* the devices with at least two entries in their collapsed sequence
FlappingDevices == { d \in DeviceSet : Len(Collapsed(d, Trailing)) >= 2 }

\* C19: in a cycle, healthy or unhealthy, whose port-flap analyzer has read
\* the history, the port-flap reason is empty when the 10-minute window holds
\* fewer than 2 ibstat events; otherwise it names exactly the devices whose
\* states over the events of the trailing 4 minutes, oldest first and
\* consecutive duplicates collapsed, have at least 2 entries, each as
\* "<device> <state> -> <state> ...", and is empty when there is none.
C19_PortFlap ==
  FlapAnalyzed =>
    Cycle.reasonIbPortFlap =
      IF Len(Window) < 2 \/ FlappingDevices = {} THEN ""
      ELSE "ib port flap -- " \o
           InNameOrder(FlappingDevices,
                       [d \in FlappingDevices |-> d \o " " \o Arrows(Collapsed(d, Trailing))], 1)

\* a healthy cycle: the first device was Active, then Down, and is Active
\* again, the second was Active throughout
C19_Witness ==
  /\ FlapAnalyzed /\ Finished /\ Cycle.health = Healthy
  /\ Len(Collapsed(Devices[2], Trailing)) = 1
  /\ Cycle.reasonIbPortFlap = "ib port flap -- mlx5_0 Active -> Down -> Active"

\* the sequences of 2 to 4 link states in which no two adjacent states are equal
Alternations ==
  { tr \in UNION { [1..n -> {"Active", "Down"}] : n \in 2..4 } :
      \A i \in 1..(Len(tr) - 1) : tr[i] # tr[i + 1] }
\* the port-flap reason that names the devices of named with the transitions tr[d]
FlapFormat(named, tr) ==
  IF named = {} THEN ""
  ELSE "ib port flap -- " \o
       InNameOrder(named, [d \in named |-> d \o " " \o Arrows(tr[d])], 1)
\* the sets of devices a port-flap reason names
NamedInFlap(reason) ==
  { named \in SUBSET DeviceSet :
      \E tr \in [named -> Alternations] : reason = FlapFormat(named, tr) }

\* C20: for the history and the timestamp of a cycle, the port-drop reason is
\* the same string whatever order the range over droppedSince visits the
\* devices in, and so is the port-flap reason for the range over
\* stateTransitions; in both, the messages of the devices are in ascending
\* order of the device names they start with.
C20_Determinism ==
  /\ DropAnalyzed =>
       /\ \A order \in MapOrders(DOMAIN DroppedSinceOf(Window)) :
            PortDropReason(Cycle, Window, order) = Cycle.reasonIbPortDrop
       /\ NamedInDrop(Cycle.reasonIbPortDrop, Cycle.ts, Window) # {}
  /\ FlapAnalyzed =>
       /\ \A order \in MapOrders(DOMAIN StateTransitionsOf(Window, Cycle.ts)) :
            PortFlapReason(Cycle, Window, order) = Cycle.reasonIbPortFlap
       /\ NamedInFlap(Cycle.reasonIbPortFlap) # {}

\* both devices are named in the port-drop reason, the first before the second
C20_Witness ==
  /\ DropAnalyzed /\ FlapAnalyzed /\ Finished
  /\ DroppedDevices = DeviceSet
  /\ Cardinality(MapOrders(DOMAIN DroppedSinceOf(Window))) = 2
  /\ Cycle.reasonIbPortDrop =
       "ib port drop -- mlx5_0 dropped 5 minutes ago, mlx5_1 dropped 4 minutes ago"

\* the events of a list named "ibstat" of type Info
IsSnapshot(ev) == ev.Name = "ibstat" /\ ev.Type = "Info"
\* seq is the elements of events at the indices of idx, in the order of events
SubsequenceAt(seq, events, idx) ==
  /\ Len(seq) = Cardinality(idx)
  /\ \A i \in idx : seq[Cardinality({ j \in idx : j <= i })] = events[i]

\* C21: a call of Events leaves the store as it is; without an event store
\* it returns no events and no error; with one, unless Get fails, it returns,
\* in the order of the store and unchanged, the stored events from the since
\* time on that are not ibstat events of type Info: ibstat events of type
\* Warning and the events of every other name are all returned.
C21_EventsAccessor ==
  [][(evs' # evs) =>
       /\ store' = store
       /\ evs'.called
       /\ ~hasBucket => (evs'.isNil /\ evs'.events = <<>> /\ evs'.err = NoError)
       /\ (hasBucket /\ evs'.err = NoError) =>
            /\ ~evs'.isNil
            /\ SubsequenceAt(evs'.events, store,
                             { i \in 1..Len(store) :
                                 store[i].Time >= evs'.since /\ ~IsSnapshot(store[i]) })
       /\ (hasBucket /\ evs'.err # NoError) => (evs'.isNil /\ evs'.events = <<>>)]_vars

\* the store holds an ibstat snapshot of type Info between an event of the
\* kmsg syncer of type Info and the ibstat event of type Warning the cycle has
\* just inserted; Events returned the two others and the snapshot stays in
\* the store
C21_Witness ==
  /\ evs.called /\ ~evs.isNil /\ evs.err = NoError
  /\ Len(store) = 3 /\ evs.since <= store[1].Time
  /\ store[1].Name # "ibstat" /\ store[1].Type = "Info"
  /\ IsSnapshot(store[2])
  /\ store[3].Name = "ibstat" /\ store[3].Type = "Warning"
  /\ evs.events = <<store[1], store[3]>>

\* C22 (as claimed): once c.ctx is cancelled, the loop waiting at its select
\* never goes on to another Check, with or without a tick pending: it stays
\* there or exits.
C22_Cancellation ==
  [][(cancelled /\ pc["loop"] = "select") => pc'["loop"] \in {"select", "exited"}]_vars

\* the checkResult objects of cycles that began and have not published
Unpublished == { i \in DOMAIN installs : installs[i] = 0 }

\* C23: at most one cycle of the loop is in progress at any time, and it is
\* the one the loop is executing; a cycle begins only when every earlier cycle
\* has published its verdict, the last of them being the installed one; the
\* loop leaves its select only to exit or to call Check again, the latter only
\* by taking the one tick ticker.C holds, and no tick is left pending after
\* that, however many minutes passed during the cycle before.
C23_NoOverlappingCycles ==
  /\ [](Unpublished \subseteq {cur["loop"]} /\ Cardinality(Unpublished) <= 1)
  /\ [](cur["loop"] # 0 <=> pc["loop"] \in CheckLabels)
  /\ [][Len(heap') > Len(heap) =>
          /\ Len(heap') = Len(heap) + 1
          /\ cur["loop"] = 0 /\ Unpublished = {}
          /\ Len(heap) > 0 => lastCheckResult = Len(heap)]_vars
  /\ [][(pc["loop"] = "select" /\ pc'["loop"] # "select") =>
          /\ pc'["loop"] \in {"check", "exited"}
          /\ pc'["loop"] = "check" => (tickPending /\ ~tickPending')
          /\ cur'["loop"] = 0]_vars
  /\ [](tickPending \in BOOLEAN)

\* the first cycle began at StartTime and is about to publish two minutes
\* later: two ticks elapsed meanwhile, one tick is pending and no other cycle
\* has begun
C23_Witness ==
  /\ cur["loop"] = 1 /\ pc["loop"] = "defer" /\ Len(heap) = 1
  /\ heap[1].ts = StartTime /\ now = StartTime + 2
  /\ heap[1].health = Unhealthy
  /\ tickPending /\ lastCheckResult = 0

\* the ways to read a port-drop reason of a cycle at ts: the devices it names,
\* each with the time of the event it has been down since
DropReadings(reason, ts, events) ==
  { since \in UNION { [named -> { events[i].Time : i \in 1..Len(events) }] :
                        named \in SUBSET DeviceSet } :
      reason = DropFormat(DOMAIN since, since, ts) }

\* C24 (as claimed): every device named in the port-drop reason is reported,
\* with state Down, by every ibstat event of the window from its first-down
\* time on, the most recent event included.
C24_ContinuouslyDown ==
  DropAnalyzed =>
    \A since \in DropReadings(Cycle.reasonIbPortDrop, Cycle.ts, Window) :
      \A d \in DOMAIN since :
        \A i \in 1..Len(Window) :
          Window[i].Time >= since[d] =>
            (i \in ReadingsOf(d, Window) /\ StateOf(d, Window[i]) = "Down")

\* C25: a checkResult whose classification is healthy, in progress or
\* published, has an empty switch-fault reason and an empty port-drop reason,
\* and so has the health record a reader is given; only the port-flap reason
\* accompanies a healthy verdict.
C25_HealthyNeverBlames ==
  /\ \A i \in DOMAIN heap :
       heap[i].health = Healthy =>
         (heap[i].reasonIbSwitchFault = "" /\ heap[i].reasonIbPortDrop = "")
  /\ (Finished /\ Verdict.health = Healthy) =>
       HealthStates(Verdict, FALSE, now).Reason
         = Verdict.reason \o (IF Verdict.reasonIbPortFlap # ""
                                THEN "; " \o Verdict.reasonIbPortFlap ELSE "")

\* a healthy verdict published over a history from which the port-drop
\* analyzer, had it run, would have named a device
C25_Witness ==
  /\ Finished /\ Verdict.health = Healthy /\ FlapAnalyzed
  /\ Verdict.reasonIbSwitchFault = "" /\ Verdict.reasonIbPortDrop = ""
  /\ \E order \in MapOrders(DOMAIN DroppedSinceOf(Window)) :
       PortDropReason(Verdict, Window, order) # ""

\* the events of the window less than 4 minutes older than the cycle
StrictlyWithin == SelectSeq(Window, LAMBDA e : Cycle.ts - e.Time < 4)
\* the port-flap reason of the devices whose states change over the events
FlapOver(events) ==
  LET flapping == { d \in DeviceSet : Len(Collapsed(d, events)) >= 2 }
  IN IF Len(Window) < 2 THEN ""
     ELSE FlapFormat(flapping, [d \in flapping |-> Collapsed(d, events)])
\* the devices whose state changes over the window, but not over the events given
OnlyThroughOlder(events) ==
  { d \in DeviceSet : Len(Collapsed(d, Window)) >= 2 /\ Len(Collapsed(d, events)) < 2 }

\* C26 (as claimed): the port-flap reason is built from the states of the
\* events observed less than 4 minutes before the cycle timestamp, and from
\* no other event.
C26_FlapWindowBoundary_Original ==
  FlapAnalyzed => Cycle.reasonIbPortFlap = FlapOver(StrictlyWithin)

\* C26 (amended): the port-flap reason is built from the states of the events
\* observed at most 4 minutes before the cycle timestamp, the event of exactly
\* 4 minutes before included, and from no older event: a device whose state
\* changes only through an event older than 4 minutes is in no reading of
\* the reason.
C26_FlapWindowBoundary ==
  FlapAnalyzed =>
    /\ Cycle.reasonIbPortFlap = FlapOver(Trailing)
    /\ \A d \in OnlyThroughOlder(Trailing) :
         \A named \in NamedInFlap(Cycle.reasonIbPortFlap) : d \notin named

\* the first device was Active 5 minutes ago, Down exactly 4 minutes ago and
\* is Active now: the reason starts at Down
C26_Witness ==
  /\ FlapAnalyzed /\ Finished
  /\ Len(Window) = 3 /\ Window[3].Time = Cycle.ts
  /\ Cycle.ts - Window[1].Time = 5 /\ StateOf(Devices[1], Window[1]) = "Active"
  /\ Cycle.ts - Window[2].Time = 4 /\ StateOf(Devices[1], Window[2]) = "Down"
  /\ Devices[2] \in OnlyThroughOlder(Trailing)
  /\ Cycle.reasonIbPortFlap = "ib port flap -- mlx5_0 Down -> Active"

\* the external calls of a cycle that runs the temporal analysis, in order:
\* both tools, Find, Insert unless Find returned an event, then the history
\* read of the port-drop analyzer (unhealthy cycles only) and that of the
\* port-flap analyzer
AnalysisOrders ==
  { <<"ibstatus", "ibstat", "find">> \o ins \o gets :
      ins \in {<<>>, <<"insert">>}, gets \in {<<"get">>, <<"get", "get">>} }
IsPrefix(a, b) == Len(a) <= Len(b) /\ a = SubSeq(b, 1, Len(a))
\* Insert stored the event of the cycle with call log cl
Inserted(cl) == Returned(cl, "insert", NoError)
\* the step issues a history read in the cycle the loop is executing
IssuesGet ==
  /\ cur["loop"] # 0
  /\ Len(Gets(calls'[cur["loop"]])) > Len(Gets(calls[cur["loop"]]))
\* the 10-minute history a cycle with checkResult cr reads holds the event of cr
InHistory(cr) ==
  LET read == IbstatEventsOf(BucketGet(store, cr.ts - LookbackMinutes))
  IN \E i \in 1..Len(read) : read[i] = convertToIbstatEvent(cr)

\* C27: the calls of a cycle are issued in the order both tools, Find,
\* Insert, history reads, so every history read follows the Find and the
\* Insert of its cycle; whenever the cycle inserted its event, the store a
\* history read of that cycle is served from holds that event within the
\* 10-minute window; and a cycle that went past the recorder publishes only
\* from its deferred function, after the history read of the port-flap
\* analyzer and, when unhealthy, that of the port-drop analyzer before it.
C27_RecordingPrecedesAnalysis ==
  /\ [](LoopCycle # 0 => \E o \in AnalysisOrders : IsPrefix(Ops(CycleCalls), o))
  /\ [][(IssuesGet /\ Inserted(calls[cur["loop"]])) => InHistory(heap[cur["loop"]])]_vars
  /\ [][(IssuesGet /\ Returned(calls[cur["loop"]], "find", NoError)
                   /\ ~Issued(calls[cur["loop"]], "insert")) =>
          SameContentIn(store, convertToIbstatEvent(heap[cur["loop"]])) # {}]_vars
  /\ [][(/\ lastCheckResult' # lastCheckResult
          /\ Returned(calls[cur["loop"]], "find", NoError)
          /\ ~StoreFailed(calls[cur["loop"]])) =>
          /\ pc["loop"] = "defer"
          /\ Len(Gets(calls[cur["loop"]])) =
               (IF heap[cur["loop"]].health = Unhealthy THEN 2 ELSE 1)
          /\ calls[cur["loop"]][Len(calls[cur["loop"]])].op = "get"]_vars

\* an unhealthy cycle inserted its event after the one an earlier cycle left,
\* both analyzers read the history holding it, and the verdict is published
C27_Witness ==
  /\ Finished /\ Inserted(VerdictCalls) /\ Verdict.health = Unhealthy
  /\ Ops(VerdictCalls) = <<"ibstatus", "ibstat", "find", "insert", "get", "get">>
  /\ \A i \in 1..2 : Gets(VerdictCalls)[i].err = NoError
  /\ Len(store) = 2 /\ store[2] = convertToIbstatEvent(Verdict)
  /\ InHistory(Verdict)

\* the three analyzers by number: switch fault, port drop, port flap; the
\* reason field of each
ReasonField(k, cr) ==
  IF k = 1 THEN cr.reasonIbSwitchFault
  ELSE IF k = 2 THEN cr.reasonIbPortDrop
  ELSE cr.reasonIbPortFlap
SetReasonField(k, cr, v) ==
  IF k = 1 THEN [cr EXCEPT !.reasonIbSwitchFault = v]
  ELSE IF k = 2 THEN [cr EXCEPT !.reasonIbPortDrop = v]
  ELSE [cr EXCEPT !.reasonIbPortFlap = v]
\* analyzer k run on cr over the history events, its map visited in order mo[k]
Analyzer(k, cr, events, mo) ==
  IF k = 1 THEN evaluateIbSwitchFault(cr)
  ELSE IF k = 2 THEN evaluateIbPortDrop(cr, events, mo[2])
  ELSE evaluateIbPortFlap(cr, events, mo[3])
\* the 6 orders of the three analyzers, and the three run in order o
AnalyzerOrders == { o \in [1..3 -> 1..3] : \A i, j \in 1..3 : i # j => o[i] # o[j] }
RunAnalyzers(o, cr, events, mo) ==
  Analyzer(o[3], Analyzer(o[2], Analyzer(o[1], cr, events, mo), events, mo), events, mo)
\* the orders in which the two analyzers with a map can visit it
VisitOrders(cr, events) ==
  { <<<<>>, d, f>> : d \in MapOrders(DOMAIN DroppedSinceOf(events)),
                     f \in MapOrders(DOMAIN StateTransitionsOf(events, cr.ts)) }
\* cr as it was before any analyzer ran
BeforeAnalysis(cr) ==
  [cr EXCEPT !.reasonIbSwitchFault = "", !.reasonIbPortDrop = "", !.reasonIbPortFlap = ""]
\* every history read of the loop's last cycle succeeded
HistoryRead == \A i \in 1..Len(Gets(CycleCalls)) : Gets(CycleCalls)[i].err = NoError

\* C28: for the evaluated checkResult and the history of a cycle, the three
\* analyzers run in any of the 6 orders, each visiting its map in any order,
\* give one and the same checkResult, and it is the one the cycle publishes
\* when its history reads succeed; each analyzer changes no field but its own
\* reason, and gives the same reason whatever the two other reason fields
\* hold; no step of the analysis changes the event store.
C28_AnalyzerIndependence ==
  /\ [](LoopCycle # 0 /\ pc["loop"] = "analyze" =>
          /\ Cardinality({ RunAnalyzers(o, Cycle, Window, mo) :
                             o \in AnalyzerOrders, mo \in VisitOrders(Cycle, Window) }) = 1
          /\ \A k \in 1..3, mo \in VisitOrders(Cycle, Window) :
               /\ SetReasonField(k, Analyzer(k, Cycle, Window, mo), ReasonField(k, Cycle))
                    = Cycle
               /\ \A i, j \in 1..3 :
                    (i # k /\ j # k) =>
                      ReasonField(k, Analyzer(k, SetReasonField(i, SetReasonField(j, Cycle,
                                                "written"), "written"), Window, mo))
                        = ReasonField(k, Analyzer(k, Cycle, Window, mo)))
  /\ [](FlapAnalyzed /\ HistoryRead =>
          \A o \in AnalyzerOrders, mo \in VisitOrders(Cycle, Window) :
            RunAnalyzers(o, BeforeAnalysis(Cycle), Window, mo) = Cycle)
  /\ [][pc["loop"] \in {"analyze", "flap"} => store' = store]_vars

\* a published verdict with a switch-fault, a port-drop and a port-flap reason
C28_Witness ==
  /\ FlapAnalyzed /\ HistoryRead /\ Finished
  /\ Verdict.reasonIbSwitchFault # ""
  /\ Verdict.reasonIbPortDrop # ""
  /\ Verdict.reasonIbPortFlap # ""

\* C29 (as claimed): in a cycle with enabled thresholds on a host whose NVML
\* instance is there, loaded and names a product, the "ibstat checker not
\* found" skip is taken if and only if both invocation functions are unset;
\* with at least one of them set the cycle goes on to invoke the tools.
C29_UnsetInvocationFunctions ==
  (LoopCycle # 0 /\ ~IsZero(LoopThresholds) /\ nvml = "ok") =>
     /\ Cycle.reason = "ibstat checker not found" <=> (~hasIbstatFunc /\ ~hasIbstatusFunc)
     /\ (hasIbstatFunc \/ hasIbstatusFunc) =>
          (pc["loop"] = "ibstatus" \/ Issued(CycleCalls, "ibstatus"))

\* the ways to read a port-flap reason: the devices it names, each with 2 to
\* 4 states of which no two adjacent ones are equal
FlapReadings(reason) ==
  { tr \in UNION { [named -> Alternations] : named \in SUBSET DeviceSet } :
      reason = FlapFormat(DOMAIN tr, tr) }
\* the last 4 elements of a sequence, or all of it when it has fewer
LastFour(seq) ==
  [i \in 1..(IF Len(seq) > 4 THEN 4 ELSE Len(seq)) |->
     seq[i + (IF Len(seq) > 4 THEN Len(seq) - 4 ELSE 0)]]

\* C30: the port-flap reason of a cycle whose port-flap analyzer has read the
\* history lists, for each device it names, at least 2 and at most 4 states
\* of which no two adjacent ones are equal, and they are the last 4 entries
\* (all entries when there are fewer) of the device's collapsed sequence of
\* states over the events of the trailing 4 minutes, oldest first.
C30_FlapCap ==
  FlapAnalyzed =>
    /\ FlapReadings(Cycle.reasonIbPortFlap) # {}
    /\ \A tr \in FlapReadings(Cycle.reasonIbPortFlap) :
         \A d \in DOMAIN tr : tr[d] = LastFour(Collapsed(d, Trailing))

\* the first device changed state at each of the last 5 readings, from Down:
\* the reason lists its last 4 states; the second changed once
C30_Witness ==
  /\ FlapAnalyzed /\ Finished
  /\ Collapsed(Devices[1], Trailing) = <<"Down", "Active", "Down", "Active", "Down">>
  /\ Collapsed(Devices[2], Trailing) = <<"Active", "Down">>
  /\ Cycle.reasonIbPortFlap =
       "ib port flap -- mlx5_0 Active -> Down -> Active -> Down, mlx5_1 Active -> Down"

\* the events with the undecodable ones replaced by events without a port
Decodable(events) ==
  [i \in 1..Len(events) |->
     IF events[i].ExtraInfo.valid THEN events[i]
     ELSE [events[i] EXCEPT !.ExtraInfo = MarshalPorts(<<>>)]]
Undecodable(events) == { i \in 1..Len(events) : ~events[i].ExtraInfo.valid }
\* the port-drop reason of the devices whose current run of Down readings
\* over the events began at least 4 minutes before the cycle
DropOver(events) ==
  LET dropped == { d \in DeviceSet : /\ DownRun(d, events) # {}
                                     /\ Cycle.ts - DownSince(d, events) >= 4 }
  IN DropFormat(dropped, [d \in dropped |-> DownSince(d, events)], Cycle.ts)
\* the events of a list at most 4 minutes older than the cycle
TrailingOf(events) == SelectSeq(events, LAMBDA e : Cycle.ts - e.Time <= 4)

\* C31: over a history some of whose ibstat events have a payload that cannot
\* be decoded, the port-drop reason and the port-flap reason of a cycle are
\* those of the same history with each such event holding no port reading:
\* the event is passed over, the events after it are still scanned, and the
\* analyzers run to their end.
C31_HistoryParseError ==
  /\ DropAnalyzed => Cycle.reasonIbPortDrop = DropOver(Decodable(Window))
  /\ FlapAnalyzed => Cycle.reasonIbPortFlap = FlapOver(TrailingOf(Decodable(Window)))

\* the first device was Down 5 minutes ago, the event of 4 minutes ago cannot
\* be decoded, and it is Down now: it is named as dropped 5 minutes ago; the
\* second went from Active to Down across the undecodable event
C31_Witness ==
  /\ DropAnalyzed /\ FlapAnalyzed /\ Finished
  /\ Len(Window) = 3 /\ Undecodable(Window) = {2}
  /\ Cycle.ts - Window[1].Time = 5 /\ Cycle.ts - Window[2].Time = 4
  /\ Window[3].Time = Cycle.ts
  /\ Cycle.reasonIbPortDrop = "ib port drop -- mlx5_0 dropped 5 minutes ago"
  /\ ReadingsOf(Devices[2], Window) = {1, 3}
  /\ StateOf(Devices[2], Window[1]) = "Active" /\ StateOf(Devices[2], Window[3]) = "Down"

\* the events of the store written at the time of the loop's last cycle
EventsOfCycle == { i \in 1..Len(store) : store[i].Time = Cycle.ts }

\* C32: once a cycle has inserted its event, the store holds exactly one event
\* with the timestamp of the cycle; it is named "ibstat", its type is Warning
\* if the cycle has unhealthy ports and Info otherwise, its message is the
\* reason of the cycle, and its payload decodes to as many entries as the
\* cycle evaluated ports, the i-th being the device and the state of the i-th
\* port with no physical state and no rate.
C32_EventConstruction ==
  (LoopCycle # 0 /\ Inserted(CycleCalls)) =>
     /\ Cardinality(EventsOfCycle) = 1
     /\ \A i \in EventsOfCycle :
          /\ store[i].Name = "ibstat"
          /\ store[i].Type \in {"Info", "Warning"}
          /\ store[i].Type = "Warning" <=> Len(Cycle.unhealthyIBPorts) > 0
          /\ store[i].Message = Cycle.reason
          /\ store[i].ExtraInfo.valid
          /\ Len(store[i].ExtraInfo.ports) = Len(Cycle.allIBPorts)
          /\ \A k \in 1..Len(Cycle.allIBPorts) :
               /\ store[i].ExtraInfo.ports[k].Device = Cycle.allIBPorts[k].Device
               /\ store[i].ExtraInfo.ports[k].State = Cycle.allIBPorts[k].State
               /\ store[i].ExtraInfo.ports[k].PhysicalState = ""
               /\ store[i].ExtraInfo.ports[k].Rate = 0

\* two ports evaluated, the second below the rate: a Warning event with two
\* entries, both Active, the rates left out
C32_Witness ==
  /\ Finished /\ Inserted(VerdictCalls)
  /\ Len(Verdict.allIBPorts) = 2 /\ Len(Verdict.unhealthyIBPorts) = 1
  /\ Verdict.allIBPorts[1].Rate = 400 /\ Verdict.allIBPorts[2].Rate = 100
  /\ \E i \in EventsOfCycle :
       /\ store[i].Type = "Warning"
       /\ Len(store[i].ExtraInfo.ports) = 2
       /\ store[i].ExtraInfo.ports[2].State = "Active"

\* C33 (as claimed): the health record of a published verdict that is Healthy
\* has an empty error, whichever way the cycle ended.
C33_HealthyHasNoError ==
  (Finished /\ Verdict.health = Healthy) =>
     HealthStates(Verdict, FALSE, now).Error = ""

\* what Events(since) returns on the store as it is, when Get succeeds
Visible(since) == FilterEvents(BucketGet(store, since))

\* C34 (as claimed): the event inserted by a cycle whose ports violate the
\* thresholds is among the events that Events returns for any time up to the
\* timestamp of the cycle.
C34_UnhealthyEvaluationVisible ==
  (LoopCycle # 0 /\ Inserted(CycleCalls) /\ Violates(Cycle.allIBPorts, LoopThresholds)) =>
     \A since \in 0..Cycle.ts : \A i \in EventsOfCycle :
        \E k \in 1..Len(Visible(since)) : Visible(since)[k] = store[i]

\* C35 (as claimed): whenever another checkResult becomes the current one,
\* its timestamp is not earlier than that of the one it replaces, also with
\* Check called on demand while the loop runs.
C35_TimestampNeverDecreases ==
  [][(lastCheckResult # 0 /\ lastCheckResult' # lastCheckResult) =>
       heap'[lastCheckResult'].ts >= heap[lastCheckResult].ts]_vars

\* every Check the loop calls returns: the loop is at its select, or gone,
\* again and again
CyclesTerminate == []<>(pc["loop"] \in {"select", "exited"})

\* C36: when every cycle of the loop terminates, the goroutine of Start
\* exits at some time after c.ctx is cancelled, whether a cycle was in
\* progress or a tick pending at that time.
C36_LoopExitsAfterClose ==
  CyclesTerminate => (cancelled ~> pc["loop"] = "exited")

\* the loop has exited after two cycles, the second begun a minute after the
\* first, with no tick left pending
C36_Witness ==
  /\ cancelled /\ pc["loop"] = "exited" /\ ~tickPending
  /\ Len(heap) = 2 /\ lastCheckResult = 2 /\ cur["loop"] = 0
  /\ heap[2].ts = StartTime + 1

\* C37: LastHealthStates reads the pointer that is current at that time, and
\* the checkResult it leads to stays as it is until the call returns. The
\* call returns one record: read before any cycle has published, it is
\* Healthy with reason "no data yet" and no error; read after that, it has
\* the classification, the timestamp and the summary of the checkResult that
\* was current when it was read. Once a cycle has published there is always
\* a current checkResult.
C37_HealthQuery ==
  /\ [][(pc["reader"] = "idle" /\ pc'["reader"] = "states") =>
          rptr' = lastCheckResult]_vars
  /\ [][(pc["reader"] = "states" /\ pc'["reader"] = "states" /\ rptr # 0) =>
          (rptr' = rptr /\ heap'[rptr] = heap[rptr])]_vars
  /\ [][(pc["reader"] = "states" /\ pc'["reader"] = "idle") =>
          IF rptr = 0
            THEN /\ rseen'.Health = Healthy
                 /\ rseen'.Reason = "no data yet"
                 /\ rseen'.Error = ""
            ELSE /\ rseen'.Health = heap[rptr].health
                 /\ rseen'.Time = heap[rptr].ts
                 /\ rseen'.Reason = Summary(heap[rptr])
                 /\ heap[rptr].reason # "(freed)"]_vars
  /\ [][lastCheckResult # 0 => lastCheckResult' # 0]_vars
  /\ []((\E i \in DOMAIN installs : installs[i] > 0) => lastCheckResult # 0)

\* a query returned the record of the first cycle, unhealthy and stamped at
\* StartTime, while the second cycle has published since and a minute passed
C37_Witness ==
  /\ pc["reader"] = "idle" /\ rseen.Time = StartTime /\ now = StartTime + 1
  /\ rseen.Health = Unhealthy /\ rseen.Reason # ""
  /\ lastCheckResult = 2 /\ heap[2].ts = StartTime + 1

====
